---------------------------- MODULE Spec2Model ----------------------------
(***************************************************************************)
(* A model of the DZ archive tool (dzip-cli): the path normalizer, the     *)
(* chunk size corrector, the pack pipeline and the two unpack pipelines.   *)
(*                                                                         *)
(* Bytes and characters are natural numbers (their ASCII codes); a string  *)
(* is a sequence of them; a file is a sequence of bytes.                   *)
(***************************************************************************)
EXTENDS Integers, Sequences, FiniteSets, TLC

VARIABLES
    \* --- path normalizer driver (core/src/path.rs, src/utils.rs) ---
    pathPc,         \* "idle" | "ready" | "done"
    pathStr,        \* the archive-format string handed to resolve_relative_path
    pathComps,      \* the parsed host path (its components) handed to sanitize_path
    pathOut,        \* the result of the operation applied
    \* --- chunk size corrector driver (crates/core/src/unpack.rs) ---
    szPc,           \* "idle" | "ready" | "done"
    szMeta,         \* the ArchiveMetadata fields calculate_chunk_sizes reads
    szSplitLens,    \* UnpackSource::get_split_len: split name -> length (a function)
    szOut,          \* the result of calculate_chunk_sizes
    \* --- pack_archive (cli/src/commands/pack.rs) ---
    cfg,            \* the descriptor: files (with their source bytes) and archives
    packPc,         \* "idle" | "start" | "compress" | "write" | "done" | "failed"
    packErr,        \* the error pack returned
    all_strings,    \* file names, then directories
    file_dir_ids,   \* the dir_id of each file
    num_directories,
    header_size,    \* the bytes reserved for the header on volume 0
    writers,        \* volume index -> stream position of its open file
    disk,           \* the directory of the archive: file name -> bytes
    results,        \* the result of each compression task
    compOrder,      \* the order the compression tasks finished in
    processed_files,
    pack_chunks,         \* the chunk table built by the write loop
    chunk_map,      \* the file map built by the write loop
    headerOut,      \* the bytes emitted by the header pass
    \* --- unpack_archive (cli/src/commands/unpack.rs) ---
    upPc,           \* "idle" | "start" | "extract" | "done" | "failed"
    upInput,        \* input_path: the name of the main volume
    upErr,          \* the error unpack returned
    upMeta,         \* the header as read, chunk sizes corrected
    upTasks,        \* the result of each extraction task
    outTree,        \* the output file system: path -> directory or file
    upCreated,      \* which task created which path
    upConfig,       \* the regenerated descriptor (the content of the .toml file)
    \* --- do_unpack (crates/core/src/unpack.rs) ---
    corePc,         \* "idle" | "load" | "build" | "extract" | "done" | "failed"
    coreSource,     \* UnpackSource: the main file and the split files by name
    coreKeepRaw,    \* keep_raw
    coreMeta,       \* the result of ArchiveMetadata::load
    corePlan,       \* the result of calculate_chunk_sizes
    coreTasks,      \* the result of each extraction task
    sinkDirs,       \* UnpackSink: the directories asked for
    sinkFiles,      \* UnpackSink: the files created, path string -> bytes
    coreConfig,     \* the Config returned
    \* --- the codecs and the flag names, applied to one input ---
    cdPc,           \* "idle" | "ready" | "done"
    cdFlags,        \* the flags mask
    cdInput,        \* the bytes of the input stream
    cdLen,          \* the expected decompressed length
    cdOut,          \* the operation applied and its result
    \* --- verify_archive (cli/src/commands/verify.rs) ---
    verPc,          \* "idle" | "start" | "verify" | "done" | "failed" | "panicked"
    verInput,       \* input_path: the name of the main volume
    verErr,         \* the error verify returned
    verMeta,        \* the header as read, chunk sizes corrected
    verTasks,       \* the result of each verification task
    verLines        \* the table lines printed

pathVars == <<pathPc, pathStr, pathComps, pathOut>>
szVars == <<szPc, szMeta, szSplitLens, szOut>>
packVars == <<cfg, packPc, packErr, all_strings, file_dir_ids, num_directories,
              header_size, writers, disk, results, compOrder, processed_files,
              pack_chunks, chunk_map, headerOut>>
upVars == <<upPc, upInput, upErr, upMeta, upTasks, outTree, upCreated, upConfig>>
coreVars == <<corePc, coreSource, coreKeepRaw, coreMeta, corePlan, coreTasks, sinkDirs,
              sinkFiles, coreConfig>>
codecVars == <<cdPc, cdFlags, cdInput, cdLen, cdOut>>
verVars == <<verPc, verInput, verErr, verMeta, verTasks, verLines>>

vars == <<pathPc, pathStr, pathComps, pathOut, szPc, szMeta, szSplitLens, szOut,
          cfg, packPc, packErr, all_strings, file_dir_ids, num_directories,
          header_size, writers, disk, results, compOrder, processed_files,
          pack_chunks, chunk_map, headerOut,
          upPc, upInput, upErr, upMeta, upTasks, outTree, upCreated, upConfig,
          corePc, coreSource, coreKeepRaw, coreMeta, corePlan, coreTasks, sinkDirs,
          sinkFiles, coreConfig, cdPc, cdFlags, cdInput, cdLen, cdOut,
          verPc, verInput, verErr, verMeta, verTasks, verLines>>

(***************************************************************************)
(* Characters                                                              *)
(***************************************************************************)
ChDot == 46
ChSlash == 47
ChColon == 58
ChBackslash == 92
ChE == 101
ChP == 112

Dot == <<ChDot>>
DotDot == <<ChDot, ChDot>>

\* Bounds of the path inputs.
MaxPathLen == 4
MaxComps == 3

RECURSIVE StringsUpTo(_, _)
StringsUpTo(alphabet, n) ==
    IF n = 0 THEN {<<>>}
    ELSE LET shorter == StringsUpTo(alphabet, n - 1)
         IN  shorter \cup {Append(s, c) : s \in shorter, c \in alphabet}

PathChars == {ChE, ChDot, ChSlash, ChBackslash, ChColon}

(***************************************************************************)
(* Results                                                                 *)
(***************************************************************************)
Ok(v) == [ok |-> TRUE, val |-> v]
Err(kind, what) == [ok |-> FALSE, err |-> kind, msg |-> what]

(***************************************************************************)
(* The drivers at rest: each specification runs one part of the program    *)
(* and leaves the state of the others as it is here.                       *)
(***************************************************************************)
NoResult == [op |-> "none", res |-> Ok(<<>>)]

PathIdle ==
    /\ pathPc = "idle"
    /\ pathStr = <<>>
    /\ pathComps = <<>>
    /\ pathOut = NoResult

SizesIdle ==
    /\ szPc = "idle"
    /\ szMeta = [raw_chunks |-> <<>>, split_file_names |-> <<>>, main_file_len |-> 0]
    /\ szSplitLens = <<>>
    /\ szOut = Ok(<<>>)

NoFiles == [f \in {} |-> <<>>]

NoConfig == [archives |-> <<>>, base_dir |-> <<>>, files |-> <<>>, options |-> <<>>]

\* pack at rest, the disk apart.
PackRest(pc) ==
    /\ packPc = pc
    /\ packErr = Ok(<<>>)
    /\ all_strings = <<>>
    /\ file_dir_ids = <<>>
    /\ num_directories = 0
    /\ header_size = 0
    /\ writers = NoFiles
    /\ results = <<>>
    /\ compOrder = <<>>
    /\ processed_files = <<>>
    /\ pack_chunks = <<>>
    /\ chunk_map = <<>>
    /\ headerOut = <<>>

PackIdle ==
    /\ cfg = [files |-> <<>>, archives |-> <<>>]
    /\ disk = NoFiles
    /\ PackRest("idle")

\* unpack at rest, its input apart.
UnpackRest(pc) ==
    /\ upPc = pc
    /\ upErr = Ok(<<>>)
    /\ upMeta = <<>>
    /\ upTasks = <<>>
    /\ outTree = NoFiles
    /\ upCreated = {}
    /\ upConfig = NoConfig

UnpackIdle ==
    /\ upInput = <<>>
    /\ UnpackRest("idle")

\* do_unpack at rest, its source apart.
CoreRest(pc) ==
    /\ corePc = pc
    /\ coreMeta = Ok(<<>>)
    /\ corePlan = Ok(<<>>)
    /\ coreTasks = <<>>
    /\ sinkDirs = {}
    /\ sinkFiles = NoFiles
    /\ coreConfig = <<>>

CoreIdle ==
    /\ coreSource = [main |-> <<>>, splits |-> NoFiles]
    /\ coreKeepRaw = FALSE
    /\ CoreRest("idle")

CodecIdle ==
    /\ cdPc = "idle"
    /\ cdFlags = 0
    /\ cdInput = <<>>
    /\ cdLen = 0
    /\ cdOut = NoResult

\* verify at rest, its input apart.
VerifyRest(pc) ==
    /\ verPc = pc
    /\ verErr = Ok(<<>>)
    /\ verMeta = <<>>
    /\ verTasks = <<>>
    /\ verLines = <<>>

VerifyIdle ==
    /\ verInput = <<>>
    /\ VerifyRest("idle")

(***************************************************************************)
(* Path normalizer                                                         *)
(***************************************************************************)
IsSep(c) == c = ChSlash \/ c = ChBackslash

\* str::split(['/', '\\']): the parts between separators, empty ones kept.
RECURSIVE SplitSeps(_)
SplitSeps(s) ==
    IF \A i \in 1..Len(s) : ~IsSep(s[i]) THEN <<s>>
    ELSE LET i == CHOOSE k \in 1..Len(s) :
                      IsSep(s[k]) /\ \A j \in 1..(k - 1) : ~IsSep(s[j])
         IN  <<SubSeq(s, 1, i - 1)>> \o SplitSeps(SubSeq(s, i + 1, Len(s)))

ContainsColon(part) == \E i \in 1..Len(part) : part[i] = ChColon

\* The loop of resolve_relative_path over the parts, from part k on, with the
\* early returns of the code; clean is clean_path (a PathBuf as its components).
RECURSIVE ResolveLoopNoColonCheck(_, _, _)
ResolveLoopNoColonCheck(parts, k, clean) ==
    IF k > Len(parts)
    THEN IF clean = <<>> THEN Ok(<<Dot>>) ELSE Ok(clean)
    ELSE LET part == parts[k]
         IN  IF part = <<>> \/ part = Dot
             THEN ResolveLoopNoColonCheck(parts, k + 1, clean)
             ELSE IF part = DotDot
             THEN Err("InvalidInput", "traversal")
             ELSE ResolveLoopNoColonCheck(parts, k + 1, Append(clean, part))

RECURSIVE ResolveLoopKeepDot(_, _, _)
ResolveLoopKeepDot(parts, k, clean) ==
    IF k > Len(parts)
    THEN IF clean = <<>> THEN Ok(<<Dot>>) ELSE Ok(clean)
    ELSE LET part == parts[k]
         IN  IF part = <<>>
             THEN ResolveLoopKeepDot(parts, k + 1, clean)
             ELSE IF part = DotDot
             THEN Err("InvalidInput", "traversal")
             ELSE IF ContainsColon(part)
             THEN Err("InvalidInput", "invalid prefix")
             ELSE ResolveLoopKeepDot(parts, k + 1, Append(clean, part))

RECURSIVE ResolveLoop(_, _, _)
ResolveLoop(parts, k, clean) ==
    IF k > Len(parts)
    THEN IF clean = <<>> THEN Ok(<<Dot>>) ELSE Ok(clean)
    ELSE LET part == parts[k]
         IN  IF part = <<>> \/ part = Dot
             THEN ResolveLoop(parts, k + 1, clean)
             ELSE IF part = DotDot
             THEN Err("InvalidInput", "traversal")
             ELSE IF ContainsColon(part)
             THEN Err("InvalidInput", "invalid prefix")
             ELSE ResolveLoop(parts, k + 1, Append(clean, part))

IsKeptPart(part) == part # <<>> /\ part # Dot

resolve_without_checks(path_str) ==
    LET kept == SelectSeq(SplitSeps(path_str), IsKeptPart)
    IN  Ok(IF kept = <<>> THEN <<Dot>> ELSE kept)

resolve_relative_path(path_str) == ResolveLoop(SplitSeps(path_str), 1, <<>>)

\* A component of a parsed host path (std::path::Component).
Normal(name) == [kind |-> "Normal", name |-> name]
Prefix == [kind |-> "Prefix", name |-> <<>>]
RootDir == [kind |-> "RootDir", name |-> <<>>]
CurDir == [kind |-> "CurDir", name |-> <<>>]
ParentDir == [kind |-> "ParentDir", name |-> <<>>]

\* The loop of sanitize_path over path.components().
RECURSIVE SanitizeLoopKeepParent(_, _, _)
SanitizeLoopKeepParent(comps, k, clean) ==
    IF k > Len(comps)
    THEN IF clean = <<>> THEN Err("InvalidInput", "empty") ELSE Ok(clean)
    ELSE LET c == comps[k]
         IN  IF c.kind = "Normal"
             THEN SanitizeLoopKeepParent(comps, k + 1, Append(clean, c.name))
             ELSE IF c.kind = "ParentDir"
             THEN SanitizeLoopKeepParent(comps, k + 1, Append(clean, DotDot))
             ELSE SanitizeLoopKeepParent(comps, k + 1, clean)

RECURSIVE SanitizeLoop(_, _, _)
SanitizeLoop(comps, k, clean) ==
    IF k > Len(comps)
    THEN IF clean = <<>> THEN Err("InvalidInput", "empty") ELSE Ok(clean)
    ELSE LET c == comps[k]
         IN  IF c.kind = "Normal"
             THEN SanitizeLoop(comps, k + 1, Append(clean, c.name))
             ELSE IF c.kind = "ParentDir"
             THEN Err("InvalidInput", "traversal")
             ELSE SanitizeLoop(comps, k + 1, clean)

sanitize_path(path) == SanitizeLoop(path, 1, <<>>)

\* str::replace(from, to) for single characters.
Replace(s, from, to) == [i \in 1..Len(s) |-> IF s[i] = from THEN to ELSE s[i]]

\* str::split('/'): the parts between slashes, empty ones kept.
RECURSIVE SplitSlash(_)
SplitSlash(s) ==
    IF \A i \in 1..Len(s) : s[i] # ChSlash THEN <<s>>
    ELSE LET i == CHOOSE k \in 1..Len(s) :
                      s[k] = ChSlash /\ \A j \in 1..(k - 1) : s[j] # ChSlash
         IN  <<SubSeq(s, 1, i - 1)>> \o SplitSlash(SubSeq(s, i + 1, Len(s)))

\* Path::new(s).components() on a host whose separator is '/': a leading '/' is
\* the root, empty parts vanish, a "." part vanishes unless it is the first part
\* of a path without root, ".." is the parent dir, any other part is normal.
RECURSIVE ComponentsFrom(_, _, _)
ComponentsFrom(parts, k, rooted) ==
    IF k > Len(parts) THEN <<>>
    ELSE LET part == parts[k]
             rest == ComponentsFrom(parts, k + 1, rooted)
         IN  IF part = <<>> THEN rest
             ELSE IF part = Dot
             THEN IF k = 1 /\ ~rooted THEN <<CurDir>> \o rest ELSE rest
             ELSE IF part = DotDot THEN <<ParentDir>> \o rest
             ELSE <<Normal(part)>> \o rest

Components(s) ==
    IF s # <<>> /\ s[1] = ChSlash
    THEN <<RootDir>> \o ComponentsFrom(SplitSlash(s), 1, TRUE)
    ELSE ComponentsFrom(SplitSlash(s), 1, FALSE)

from_archive_format(path_str) ==
    sanitize_path(Components(Replace(path_str, ChBackslash, ChSlash)))

\* The older sanitize_path(base, rel_path_str) of src/utils.rs, on the components
\* of Path::new(rel_path_str): a drive prefix is an error there, and the result
\* is joined to base.
RECURSIVE LegacySanitizeLoop(_, _, _)
LegacySanitizeLoop(comps, k, safe) ==
    IF k > Len(comps)
    THEN IF safe = <<>> THEN Err("Generic", "empty") ELSE Ok(safe)
    ELSE LET c == comps[k]
         IN  IF c.kind = "Normal"
             THEN LegacySanitizeLoop(comps, k + 1, Append(safe, c.name))
             ELSE IF c.kind = "ParentDir"
             THEN Err("Generic", "traversal")
             ELSE IF c.kind = "Prefix"
             THEN Err("Generic", "absolute")
             ELSE LegacySanitizeLoop(comps, k + 1, safe)

legacy_sanitize_path(base, comps) ==
    LET r == LegacySanitizeLoop(comps, 1, <<>>)
    IN  IF r.ok THEN Ok(base \o r.val) ELSE r

(***************************************************************************)
(* Chunk size corrector                                                    *)
(***************************************************************************)
RawChunk(id, offset, c_len, d_len, flags, file_idx) ==
    [id |-> id, offset |-> offset, head_c_len |-> c_len, d_len |-> d_len,
     flags |-> flags, file_idx |-> file_idx, real_c_len |-> 0]

\* file_chunks_map[f]: the indices of the chunks of volume f, in table order.
RECURSIVE IndicesOfVolume(_, _, _)
IndicesOfVolume(chunks, f, k) ==
    IF k > Len(chunks) THEN <<>>
    ELSE IF chunks[k].file_idx = f
    THEN <<k>> \o IndicesOfVolume(chunks, f, k + 1)
    ELSE IndicesOfVolume(chunks, f, k + 1)

UnsortedIndices(chunks, indices) == indices

\* A sort by offset that is not stable: among equal offsets the later index
\* comes first.
RECURSIVE SortByOffsetTiesReversed(_, _)
SortByOffsetTiesReversed(chunks, indices) ==
    IF indices = <<>> THEN <<>>
    ELSE LET p == CHOOSE q \in 1..Len(indices) :
                      /\ \A r \in 1..Len(indices) :
                             chunks[indices[q]].offset <= chunks[indices[r]].offset
                      /\ \A r \in (q + 1)..Len(indices) :
                             chunks[indices[r]].offset # chunks[indices[q]].offset
             rest == [r \in 1..(Len(indices) - 1) |->
                          IF r < p THEN indices[r] ELSE indices[r + 1]]
         IN  <<indices[p]>> \o SortByOffsetTiesReversed(chunks, rest)

\* sort_by_key(|&i| chunks[i].offset): a stable sort, so among equal offsets the
\* earlier index stays first.  Selection of the first minimum, repeated.
RECURSIVE SortByOffset(_, _)
SortByOffset(chunks, indices) ==
    IF indices = <<>> THEN <<>>
    ELSE LET p == CHOOSE q \in 1..Len(indices) :
                      /\ \A r \in 1..Len(indices) :
                             chunks[indices[q]].offset <= chunks[indices[r]].offset
                      /\ \A r \in 1..(q - 1) :
                             chunks[indices[r]].offset # chunks[indices[q]].offset
             rest == [r \in 1..(Len(indices) - 1) |->
                          IF r < p THEN indices[r] ELSE indices[r + 1]]
         IN  <<indices[p]>> \o SortByOffset(chunks, rest)

\* current_file_size of volume f_idx: the main file's length, or the length the
\* source reports for the split file named at f_idx - 1.
VolumeSize(meta, splitLens, f_idx) ==
    IF f_idx = 0 THEN Ok(meta.main_file_len)
    ELSE IF f_idx - 1 >= Len(meta.split_file_names)
    THEN Err("Generic", "invalid split file index")
    ELSE IF meta.split_file_names[f_idx] \notin DOMAIN splitLens
    THEN Err("Io", "split file")
    ELSE Ok(splitLens[meta.split_file_names[f_idx]])

\* The inner loop for one volume: real_c_len of the chunk at position k of the
\* sorted indices.  The cast `current_file_size as u32` leaves a length below
\* 2^32 as it is, and every length of this model is far below that.
RealLen(chunks, sorted, k, size) ==
    LET idx == sorted[k]
        current_offset == chunks[idx].offset
        next_offset == IF k = Len(sorted) THEN size
                       ELSE chunks[sorted[k + 1]].offset
    IN  IF next_offset < current_offset THEN chunks[idx].head_c_len
        ELSE next_offset - current_offset

VolumesOf(chunks) == {chunks[i].file_idx : i \in 1..Len(chunks)}

calculate_chunk_sizes(meta, splitLens) ==
    LET chunks == meta.raw_chunks
        bad == {f \in VolumesOf(chunks) : ~VolumeSize(meta, splitLens, f).ok}
    IN  IF bad # {}
        THEN LET f == CHOOSE g \in bad : TRUE
             IN  VolumeSize(meta, splitLens, f)
        ELSE Ok([i \in 1..Len(chunks) |->
                    LET f == chunks[i].file_idx
                        sorted == SortByOffset(chunks, IndicesOfVolume(chunks, f, 1))
                        k == CHOOSE j \in 1..Len(sorted) : sorted[j] = i
                    IN  [chunks[i] EXCEPT !.real_c_len =
                            RealLen(chunks, sorted, k,
                                    VolumeSize(meta, splitLens, f).val)]])

(***************************************************************************)
(* Format codec: the header records as bytes (all integers little-endian)  *)
(***************************************************************************)
MAGIC == 1515344964                     \* 0x5A525444
CHUNK_LIST_TERMINATOR == 65535          \* 0xFFFF
CHUNK_COMBUF == 1
CHUNK_DZ == 4
CHUNK_ZLIB == 8
CHUNK_BZIP == 16
CHUNK_MP3 == 32
CHUNK_JPEG == 64
CHUNK_ZERO == 128
CHUNK_COPYCOMP == 256
CHUNK_LZMA == 512
CHUNK_RANDOMACCESS == 1024

\* flags & bit != 0, for a single-bit mask.
HasFlag(flags, bit) == (flags \div bit) % 2 = 1

RECURSIVE Concat(_)
Concat(seqs) == IF seqs = <<>> THEN <<>> ELSE Head(seqs) \o Concat(Tail(seqs))

\* write_u16::<LittleEndian>, write_u32::<LittleEndian>
U16LE(n) == <<n % 256, (n \div 256) % 256>>

U32LE(n) == <<n % 256, (n \div 256) % 256, (n \div 65536) % 256, (n \div 16777216) % 256>>

\* A string and its terminating NUL.
CStr(s) == s \o <<0>>

\* A reader is the buffer and a position (0-based count of bytes consumed); a
\* read gives the value and the position after it, or an i/o error at the end
\* of the file.
Got(v, pos) == [ok |-> TRUE, val |-> v, pos |-> pos]

ReadU8(buf, pos) ==
    IF pos + 1 > Len(buf) THEN Err("Io", "unexpected eof")
    ELSE Got(buf[pos + 1], pos + 1)

ReadU16(buf, pos) ==
    IF pos + 2 > Len(buf) THEN Err("Io", "unexpected eof")
    ELSE Got(buf[pos + 1] + 256 * buf[pos + 2], pos + 2)

ReadU32BE(buf, pos) ==
    IF pos + 4 > Len(buf) THEN Err("Io", "unexpected eof")
    ELSE Got(buf[pos + 4] + 256 * buf[pos + 3] + 65536 * buf[pos + 2]
                 + 16777216 * buf[pos + 1], pos + 4)

ReadU32(buf, pos) ==
    IF pos + 4 > Len(buf) THEN Err("Io", "unexpected eof")
    ELSE Got(buf[pos + 1] + 256 * buf[pos + 2] + 65536 * buf[pos + 3]
                 + 16777216 * buf[pos + 4], pos + 4)

\* read_null_term_string: read_until(0), the terminator dropped; at the end of
\* the file it yields what is left (possibly nothing) without an error.
read_null_term_string(buf, pos) ==
    LET zeros == {i \in (pos + 1)..Len(buf) : buf[i] = 0}
    IN  IF zeros = {} THEN Got(SubSeq(buf, pos + 1, Len(buf)), Len(buf))
        ELSE LET z == CHOOSE i \in zeros : \A j \in zeros : i <= j
             IN  Got(SubSeq(buf, pos + 1, z - 1), z)

\* n strings in a row.
RECURSIVE ReadStrings(_, _, _)
ReadStrings(buf, pos, n) ==
    IF n = 0 THEN Got(<<>>, pos)
    ELSE LET s == read_null_term_string(buf, pos)
         IN  IF ~s.ok THEN s
             ELSE LET rest == ReadStrings(buf, s.pos, n - 1)
                  IN  IF ~rest.ok THEN rest
                      ELSE Got(<<s.val>> \o rest.val, rest.pos)

\* The chunk ids of one file-map entry, up to the terminator.
RECURSIVE ReadChunkIds(_, _)
ReadChunkIds(buf, pos) ==
    LET cid == ReadU16(buf, pos)
    IN  IF ~cid.ok THEN cid
        ELSE IF cid.val = CHUNK_LIST_TERMINATOR THEN Got(<<>>, cid.pos)
        ELSE LET rest == ReadChunkIds(buf, cid.pos)
             IN  IF ~rest.ok THEN rest
                 ELSE Got(<<cid.val>> \o rest.val, rest.pos)

\* n file-map entries: each a dir_id and its chunk ids.
RECURSIVE ReadFileChunkMap(_, _, _)
ReadFileChunkMap(buf, pos, n) ==
    IF n = 0 THEN Got(<<>>, pos)
    ELSE LET dir_id == ReadU16(buf, pos)
         IN  IF ~dir_id.ok THEN dir_id
             ELSE LET ids == ReadChunkIds(buf, dir_id.pos)
                  IN  IF ~ids.ok THEN ids
                      ELSE LET rest == ReadFileChunkMap(buf, ids.pos, n - 1)
                           IN  IF ~rest.ok THEN rest
                               ELSE Got(<<[dir_id |-> dir_id.val,
                                           chunk_ids |-> ids.val]>> \o rest.val,
                                        rest.pos)

\* One 16-byte chunk record: offset, compressed length, decompressed length,
\* flags, volume.
ReadChunk(buf, pos) ==
    IF pos + 16 > Len(buf) THEN Err("Io", "unexpected eof")
    ELSE Got([offset |-> ReadU32(buf, pos).val,
              compressed_length |-> ReadU32(buf, pos + 4).val,
              decompressed_length |-> ReadU32(buf, pos + 8).val,
              flags |-> ReadU16(buf, pos + 12).val,
              file |-> ReadU16(buf, pos + 14).val], pos + 16)

RECURSIVE ReadChunks(_, _, _)
ReadChunks(buf, pos, n) ==
    IF n = 0 THEN Got(<<>>, pos)
    ELSE LET c == ReadChunk(buf, pos)
         IN  IF ~c.ok THEN c
             ELSE LET rest == ReadChunks(buf, c.pos, n - 1)
                  IN  IF ~rest.ok THEN rest
                      ELSE Got(<<c.val>> \o rest.val, rest.pos)

\* The ten bytes of the range settings.
ReadRangeSettings(buf, pos) ==
    IF pos + 10 > Len(buf) THEN Err("Io", "unexpected eof")
    ELSE Got(SubSeq(buf, pos + 1, pos + 10), pos + 10)

\* DzipWriter: the records as the format lays them out.
write_archive_settings(settings) ==
    U32LE(settings.header) \o U16LE(settings.num_user_files)
        \o U16LE(settings.num_directories) \o <<settings.version>>

write_strings(strings) == Concat([i \in 1..Len(strings) |-> CStr(strings[i])])

write_file_chunk_map(map) ==
    Concat([i \in 1..Len(map) |->
        U16LE(map[i].dir_id)
            \o Concat([j \in 1..Len(map[i].chunk_ids) |-> U16LE(map[i].chunk_ids[j])])
            \o U16LE(CHUNK_LIST_TERMINATOR)])

write_chunk_settings(cs) == U16LE(cs.num_archive_files) \o U16LE(cs.num_chunks)

write_chunks(chunks) ==
    Concat([i \in 1..Len(chunks) |->
        U32LE(chunks[i].offset) \o U32LE(chunks[i].compressed_length)
            \o U32LE(chunks[i].decompressed_length) \o U16LE(chunks[i].flags)
            \o U16LE(chunks[i].file)])

ZeroRangeSettings == [i \in 1..10 |-> 0]

write_global_settings(rs) == rs

(***************************************************************************)
(* The two header readers                                                  *)
(***************************************************************************)
\* DzipReader::read_archive_settings: magic, counts, version.
read_archive_settings(buf) ==
    LET magic == ReadU32(buf, 0)
    IN  IF ~magic.ok THEN magic
        ELSE IF magic.val # MAGIC THEN Err("InvalidMagic", magic.val)
        ELSE LET nf == ReadU16(buf, 4)
                 nd == ReadU16(buf, 6)
                 ver == ReadU8(buf, 8)
             IN  IF ~ver.ok THEN ver
                 ELSE Got([header |-> magic.val, num_user_files |-> nf.val,
                           num_directories |-> nd.val, version |-> ver.val], 9)

\* unpack_archive's count of strings, in 16-bit arithmetic.
StringsCountWithRoot(num_files, num_dirs) == (num_files + num_dirs) % 65536

StringsCount(num_files, num_dirs) == (num_files + num_dirs + 65535) % 65536

\* The two counts are added and 1 is subtracted in u16: the sum does not fit,
\* or the difference is below 0. A build with overflow checks panics there, a
\* build without them goes on with the wrapped count.
CountOverflows(settings) ==
    /\ settings.ok
    /\ \/ settings.val.num_user_files + settings.val.num_directories > 65535
       \/ settings.val.num_user_files + settings.val.num_directories = 0

HasDzChunk(chunks) == \E i \in 1..Len(chunks) : HasFlag(chunks[i].flags, CHUNK_DZ)

\* The read sequence of unpack_archive (and of verify_archive): settings,
\* strings, file map, chunk settings, chunk table, volume list, range settings.
\* Each step takes what was read so far and the result of the next read.
CliReadDone(settings, strings, map, cs, chunkTable, volume_files, range) ==
    IF ~range.ok THEN range
    ELSE Got([settings |-> settings,
              strings |-> strings,
              map |-> map,
              chunk_settings |-> cs,
              chunks |-> chunkTable,
              volume_files |-> volume_files,
              range_settings |-> range.val], range.pos)

CliReadRange(buf, settings, strings, map, cs, chunkTable, volume_files) ==
    IF ~volume_files.ok THEN volume_files
    ELSE CliReadDone(settings, strings, map, cs, chunkTable, volume_files.val,
                     IF HasDzChunk(chunkTable)
                     THEN ReadRangeSettings(buf, volume_files.pos)
                     ELSE Got(<<>>, volume_files.pos))

CliReadVolumes(buf, settings, strings, map, cs, chunkTable) ==
    IF ~chunkTable.ok THEN chunkTable
    ELSE CliReadRange(buf, settings, strings, map, cs, chunkTable.val,
                      ReadStrings(buf, chunkTable.pos,
                                  IF cs.num_archive_files > 0
                                  THEN cs.num_archive_files - 1 ELSE 0))

CliReadChunks(buf, settings, strings, map, naf, nc) ==
    IF ~nc.ok THEN nc
    ELSE CliReadVolumes(buf, settings, strings, map,
                        [num_archive_files |-> naf.val, num_chunks |-> nc.val],
                        ReadChunks(buf, nc.pos, nc.val))

CliReadChunkSettings(buf, settings, strings, map) ==
    IF ~map.ok THEN map
    ELSE CliReadChunks(buf, settings, strings, map.val,
                       ReadU16(buf, map.pos), ReadU16(buf, map.pos + 2))

CliReadMap(buf, settings, strings) ==
    IF ~strings.ok THEN strings
    ELSE CliReadChunkSettings(buf, settings, strings.val,
                              ReadFileChunkMap(buf, strings.pos, settings.num_user_files))

CliReadStrings(buf, settings) ==
    IF ~settings.ok THEN settings
    ELSE CliReadMap(buf, settings.val,
                    ReadStrings(buf, settings.pos,
                                StringsCount(settings.val.num_user_files,
                                             settings.val.num_directories)))

cli_read_metadata(buf) == CliReadStrings(buf, read_archive_settings(buf))

CURRENT_DIR_STR == Dot

\* ArchiveMetadata::load, step by step in the same way.
LoadDone(buf, version, user_files, dirs, map, naf, chunkTable, split, range) ==
    IF ~range.ok THEN range
    ELSE Got([version |-> version,
              user_files |-> user_files,
              directories |-> <<CURRENT_DIR_STR>> \o dirs,
              map_entries |-> [i \in 1..Len(map) |->
                                  [id |-> i - 1, dir_idx |-> map[i].dir_id,
                                   chunk_ids |-> map[i].chunk_ids]],
              raw_chunks |-> [i \in 1..Len(chunkTable) |->
                                  RawChunk(i - 1, chunkTable[i].offset,
                                           chunkTable[i].compressed_length,
                                           chunkTable[i].decompressed_length,
                                           chunkTable[i].flags,
                                           chunkTable[i].file)],
              num_arch_files |-> naf,
              split_file_names |-> split,
              range_settings |-> range.val,
              main_file_len |-> Len(buf)], range.pos)

LoadRange(buf, version, user_files, dirs, map, naf, chunkTable, split) ==
    LoadDone(buf, version, user_files, dirs, map, naf, chunkTable, split.val,
             IF HasDzChunk(chunkTable) THEN ReadRangeSettings(buf, split.pos)
             ELSE Got(<<>>, split.pos))

LoadSplitNames(buf, version, user_files, dirs, map, naf, chunkTable) ==
    IF ~chunkTable.ok THEN chunkTable
    ELSE LoadRange(buf, version, user_files, dirs, map, naf, chunkTable.val,
                   ReadStrings(buf, chunkTable.pos, IF naf > 1 THEN naf - 1 ELSE 0))

LoadChunks(buf, version, user_files, dirs, map, naf, nc) ==
    IF ~nc.ok THEN nc
    ELSE LoadSplitNames(buf, version, user_files, dirs, map, naf.val,
                        ReadChunks(buf, nc.pos, nc.val))

LoadChunkSettings(buf, version, user_files, dirs, map) ==
    IF ~map.ok THEN map
    ELSE LoadChunks(buf, version, user_files, dirs, map.val,
                    ReadU16(buf, map.pos), ReadU16(buf, map.pos + 2))

LoadMap(buf, num_files, version, user_files, dirs) ==
    LoadChunkSettings(buf, version, user_files.val, dirs.val,
                      ReadFileChunkMap(buf, dirs.pos, num_files))

LoadDirectories(buf, num_files, num_dirs, version, user_files) ==
    LoadMap(buf, num_files, version, user_files,
            ReadStrings(buf, user_files.pos, num_dirs - 1))

\* (num_dirs - 1 with num_dirs = 0 is the overflow panic of a build with
\* overflow checks; no input of the drivers below has num_dirs = 0.)
LoadStrings(buf, num_files, num_dirs, version) ==
    IF ~version.ok THEN version
    ELSE IF num_dirs.val = 0 THEN Err("Panic", "num_dirs - 1 overflows")
    ELSE LoadDirectories(buf, num_files.val, num_dirs.val, version.val,
                         ReadStrings(buf, 9, num_files.val))

\* From the result of reading the magic on.
LoadRecords(magic, buf) ==
    IF ~magic.ok THEN magic
    ELSE IF magic.val # MAGIC
    THEN [ok |-> FALSE, err |-> "InvalidMagic", msg |-> magic.val, pos |-> magic.pos]
    ELSE LoadStrings(buf, ReadU16(buf, 4), ReadU16(buf, 6), ReadU8(buf, 8))

load_big_endian_magic(buf) == LoadRecords(ReadU32BE(buf, 0), buf)

load(buf) == LoadRecords(ReadU32(buf, 0), buf)

(***************************************************************************)
(* Codecs                                                                  *)
(***************************************************************************)
Methods == {"Copy", "Zero", "Zlib", "Bzip", "Lzma", "Dz", "Mp3", "Jpeg",
            "Combuf", "RandomAccess"}

\* The flag bits a compression method is packed with.
MethodFlags(method) ==
    CASE method = "Copy" -> 0
      [] method = "Zero" -> CHUNK_ZERO
      [] method = "Zlib" -> CHUNK_ZLIB
      [] method = "Bzip" -> CHUNK_BZIP
      [] method = "Lzma" -> CHUNK_LZMA
      [] method = "Dz" -> CHUNK_DZ
      [] method = "Mp3" -> CHUNK_MP3
      [] method = "Jpeg" -> CHUNK_JPEG
      [] method = "Combuf" -> CHUNK_COMBUF
      [] method = "RandomAccess" -> CHUNK_RANDOMACCESS

\* The codec libraries, as framing: a stream opens with the codec's first byte
\* and the length of the data, and the data follows; a decoder stops at the end
\* of its stream and fails on any other input.
StreamMagic(codec) ==
    CASE codec = "Zlib" -> 120
      [] codec = "Bzip" -> 66
      [] codec = "Lzma" -> 93

Encode(codec, data) == <<StreamMagic(codec), Len(data)>> \o data

Decode(codec, input) ==
    IF Len(input) < 2 \/ input[1] # StreamMagic(codec) \/ Len(input) < 2 + input[2]
    THEN Err("Decompression", codec)
    ELSE Ok(SubSeq(input, 3, 2 + input[2]))

\* The decoders are streams read by io::copy: what a decoder has decoded is in
\* the output when it fails. A stream that breaks off after a valid beginning
\* has given the data that was there.
DecodeWritten(codec, input) ==
    IF Len(input) < 2 \/ input[1] # StreamMagic(codec) THEN <<>>
    ELSE SubSeq(input, 3, IF Len(input) < 2 + input[2] THEN Len(input)
                          ELSE 2 + input[2])

Zeros(n) == [i \in 1..n |-> 0]

\* compress_data(&raw_data, method) -> (flags, compressed bytes)
compress_data(raw_data, method) ==
    [flags |-> MethodFlags(method),
     data |-> IF method = "Zero" THEN <<>>
              ELSE IF method \in {"Zlib", "Bzip", "Lzma"} THEN Encode(method, raw_data)
              ELSE raw_data]

\* The decoder the flags select, first match in the priority order.
SelectedDecoder(flags) ==
    IF HasFlag(flags, CHUNK_ZERO) THEN "Zero"
    ELSE IF HasFlag(flags, CHUNK_DZ) THEN "Dz"
    ELSE IF HasFlag(flags, CHUNK_LZMA) THEN "Lzma"
    ELSE IF HasFlag(flags, CHUNK_ZLIB) THEN "Zlib"
    ELSE IF HasFlag(flags, CHUNK_BZIP) THEN "Bzip"
    ELSE IF HasFlag(flags, CHUNK_COPYCOMP) THEN "Copy"
    ELSE IF flags = 0 THEN "Copy"
    ELSE "Unsupported"

\* compression.rs ZeroDecompressor: len zero bytes, written chunk_size at a time.
ZeroChunkSize == 4096

RECURSIVE ZeroDecompressor(_)
ZeroDecompressor(remaining) ==
    IF remaining > 0
    THEN LET to_write == IF remaining < ZeroChunkSize THEN remaining ELSE ZeroChunkSize
         IN  Zeros(to_write) \o ZeroDecompressor(remaining - to_write)
    ELSE <<>>

\* compression.rs create_default_registry: the decompressors in the order they
\* are registered.
DefaultDecompressors ==
    << [mask |-> CHUNK_ZERO, decoder |-> "Zero"],
       [mask |-> CHUNK_DZ, decoder |-> "PassThrough"],
       [mask |-> CHUNK_LZMA, decoder |-> "Lzma"],
       [mask |-> CHUNK_ZLIB, decoder |-> "Zlib"],
       [mask |-> CHUNK_BZIP, decoder |-> "Bzip"] >>

\* decoder.decompress(input, output, len): what is written to the output.
RunDecoder(decoder, input, len) ==
    IF decoder = "Zero" THEN Ok(ZeroDecompressor(len))
    ELSE IF decoder = "PassThrough" THEN Ok(input)
    ELSE Decode(decoder, input)

RECURSIVE RegistryLoopUnknownFails(_, _, _, _, _)
RegistryLoopUnknownFails(decompressors, k, input, flags, len) ==
    IF k > Len(decompressors) THEN Err("UnsupportedCompression", flags)
    ELSE IF HasFlag(flags, decompressors[k].mask)
    THEN RunDecoder(decompressors[k].decoder, input, len)
    ELSE RegistryLoopUnknownFails(decompressors, k + 1, input, flags, len)

\* CodecRegistry::decompress: the first registered decoder whose mask meets the
\* flags runs; when there is none the input is copied.
RECURSIVE RegistryLoop(_, _, _, _, _)
RegistryLoop(decompressors, k, input, flags, len) ==
    IF k > Len(decompressors) THEN Ok(input)
    ELSE IF HasFlag(flags, decompressors[k].mask)
    THEN RunDecoder(decompressors[k].decoder, input, len)
    ELSE RegistryLoop(decompressors, k + 1, input, flags, len)

registry_decompress(input, flags, len) ==
    RegistryLoop(DefaultDecompressors, 1, input, flags, len)

\* compression.rs create_default_registry: the compressors in the order they
\* are registered.
DefaultCompressors ==
    << [mask |-> CHUNK_LZMA, encoder |-> "Lzma"],
       [mask |-> CHUNK_ZLIB, encoder |-> "Zlib"],
       [mask |-> CHUNK_BZIP, encoder |-> "Bzip"] >>

\* CodecRegistry::compress: the first registered encoder whose mask meets the
\* flags runs; when there is none the input is copied.
RECURSIVE CompressLoop(_, _, _, _)
CompressLoop(compressors, k, input, flags) ==
    IF k > Len(compressors) THEN Ok(input)
    ELSE IF HasFlag(flags, compressors[k].mask)
    THEN Ok(Encode(compressors[k].encoder, input))
    ELSE CompressLoop(compressors, k + 1, input, flags)

registry_compress(input, flags) ==
    CompressLoop(DefaultCompressors, 1, input, flags)

\* The bytes of a file from offset on, at most len of them.
Take(buf, offset, len) ==
    SubSeq(buf, offset + 1, IF offset + len > Len(buf) THEN Len(buf) ELSE offset + len)

\* DzipReader::read_chunk_data_with_volumes: the chunk's bytes from its volume,
\* decoded.  files maps the names of the files beside the main volume to their
\* bytes.
read_chunk_data_with_volumes(chunk, main, volume_files, files) ==
    IF chunk.file # 0 /\ chunk.file > Len(volume_files)
    THEN Err("InvalidInput", "unknown volume index")
    ELSE IF chunk.file # 0 /\ volume_files[chunk.file] \notin DOMAIN files
    THEN Err("Io", "volume not found")
    ELSE LET buf == IF chunk.file = 0 THEN main ELSE files[volume_files[chunk.file]]
             raw == Take(buf, chunk.offset, chunk.compressed_length)
             decoder == SelectedDecoder(chunk.flags)
         IN  IF decoder = "Unsupported" THEN Err("UnsupportedCompression", chunk.flags)
             ELSE IF decoder = "Zero" THEN Ok(Zeros(chunk.decompressed_length))
             ELSE IF decoder \in {"Zlib", "Bzip", "Lzma"} THEN Decode(decoder, raw)
             ELSE Ok(raw)

\* dzip_core::reader::correct_chunk_sizes(&mut chunks, &file_sizes): per volume,
\* by offset, each compressed length becomes the gap to the next offset, the
\* last one the gap to the volume's size; a negative gap, or a volume whose size
\* is unknown, leaves the recorded length.
RECURSIVE IndicesOfFile(_, _, _)
IndicesOfFile(chunks, f, k) ==
    IF k > Len(chunks) THEN <<>>
    ELSE IF chunks[k].file = f THEN <<k>> \o IndicesOfFile(chunks, f, k + 1)
    ELSE IndicesOfFile(chunks, f, k + 1)

correct_chunk_sizes(chunks, file_sizes) ==
    [i \in 1..Len(chunks) |->
        LET f == chunks[i].file
            sorted == SortByOffset(chunks, IndicesOfFile(chunks, f, 1))
            k == CHOOSE j \in 1..Len(sorted) : sorted[j] = i
            known == k < Len(sorted) \/ f \in DOMAIN file_sizes
            next_offset == IF k < Len(sorted) THEN chunks[sorted[k + 1]].offset
                           ELSE IF f \in DOMAIN file_sizes THEN file_sizes[f]
                           ELSE 0
        IN  IF known /\ next_offset >= chunks[i].offset
            THEN [chunks[i] EXCEPT !.compressed_length = next_offset - chunks[i].offset]
            ELSE chunks[i]]

(***************************************************************************)
(* Host paths of the pack descriptor and files on disk                     *)
(***************************************************************************)
\* A host path is the sequence of its components' names ("." and ".." among
\* them); Path::file_name is the last one unless it is "..".
file_name(path) ==
    IF path = <<>> \/ path[Len(path)] = DotDot \/ path[Len(path)] = Dot
    THEN Err("None", "no file name")
    ELSE Ok(path[Len(path)])

\* Path::parent: the path without its last component.
parent(path) == IF path = <<>> THEN <<>> ELSE SubSeq(path, 1, Len(path) - 1)

\* The string of a host path: its components joined by the separator.
RECURSIVE JoinWith(_, _)
JoinWith(path, sep) ==
    IF path = <<>> THEN <<>>
    ELSE IF Len(path) = 1 THEN path[1]
    ELSE path[1] \o <<sep>> \o JoinWith(Tail(path), sep)

\* to_archive_format: the path's string with every '/' replaced by '\'.
to_archive_format_keep_slash(path) == JoinWith(path, ChSlash)

to_archive_format(path) ==
    LET str == JoinWith(path, ChSlash)
    IN  [i \in 1..Len(str) |-> IF str[i] = ChSlash THEN ChBackslash ELSE str[i]]

\* write_all(bytes) at position pos of a file: the bytes replace what is there
\* and extend the file; a gap left by a seek past the end reads as zeros.
WriteAt(content, pos, bytes) ==
    IF bytes = <<>> THEN content
    ELSE [i \in 1..(IF Len(content) > pos + Len(bytes) THEN Len(content)
                    ELSE pos + Len(bytes)) |->
             IF i > pos /\ i <= pos + Len(bytes) THEN bytes[i - pos]
             ELSE IF i <= Len(content) THEN content[i]
             ELSE 0]

(***************************************************************************)
(* pack_archive                                                            *)
(***************************************************************************)
\* The directories of the descriptor's files, each once, in first-seen order
\* (the root, "" or ".", is none of them).
RECURSIVE Directories(_, _)
Directories(files, k) ==
    IF k = 0 THEN <<>>
    ELSE LET before == Directories(files, k - 1)
             parent_str == to_archive_format(parent(files[k].path))
         IN  IF parent_str = <<>> \/ parent_str = Dot
                \/ \E j \in 1..Len(before) : before[j] = parent_str
             THEN before
             ELSE Append(before, parent_str)

\* The dir_id of file k: 0 for the root, else the 1-based position of its
\* directory.
FileDirId(files, k) ==
    LET parent_str == to_archive_format(parent(files[k].path))
        dirs == Directories(files, k)
    IN  IF parent_str = <<>> \/ parent_str = Dot THEN 0
        ELSE CHOOSE j \in 1..Len(dirs) : dirs[j] = parent_str

NumDirectories(directories) == Len(directories) + 1

RECURSIVE SumLens(_)
SumLens(strings) ==
    IF strings = <<>> THEN 0 ELSE Len(Head(strings)) + 1 + SumLens(Tail(strings))

\* The bytes reserved for the header on volume 0 before any payload.
HeaderSize(strings, num_user_files, archives) ==
    9 + SumLens(strings) + num_user_files * 6 + 4 + num_user_files * 16
      + (IF Len(archives) > 1 THEN SumLens(Tail(archives)) ELSE 0)

\* The bytes the header pass emits.
HeaderBytes(strings, num_user_files, num_dirs, map, archives, chunkTable) ==
    write_archive_settings([header |-> MAGIC, num_user_files |-> num_user_files,
                            num_directories |-> num_dirs, version |-> 0])
      \o write_strings(strings)
      \o write_file_chunk_map(map)
      \o write_chunk_settings([num_archive_files |-> Len(archives),
                               num_chunks |-> Len(chunkTable)])
      \o write_chunks(chunkTable)
      \o (IF Len(archives) > 1 THEN write_strings(Tail(archives)) ELSE <<>>)
      \o (IF HasDzChunk(chunkTable) THEN write_global_settings(ZeroRangeSettings)
          ELSE <<>>)

\* collect::<Result<Vec<_>>>(): the results of the tasks in the order of the
\* files, whatever order the tasks finished in.
CollectInCompletionOrder(res, order) == [k \in 1..Len(order) |-> res[order[k]].val]

Collect(res, order) == [i \in 1..Len(order) |-> res[i].val]

Pending == [ok |-> FALSE, err |-> "pending", msg |-> ""]

PackPrepare ==
    /\ packPc = "start"
    /\ LET files == cfg.files
           n == Len(files)
       IN  IF \E i \in 1..n : ~file_name(files[i].path).ok
           THEN /\ packPc' = "failed"
                /\ packErr' = Err("InvalidInput", "Invalid file path")
                /\ UNCHANGED <<all_strings, file_dir_ids, num_directories,
                               header_size, writers, disk, results>>
           ELSE IF cfg.archives = <<>>
           THEN /\ packPc' = "failed"
                /\ packErr' = Err("InvalidInput", "No archives specified")
                /\ UNCHANGED <<all_strings, file_dir_ids, num_directories,
                               header_size, writers, disk, results>>
           ELSE LET file_names == [i \in 1..n |-> file_name(files[i].path).val]
                    directories == Directories(files, n)
                    strings == file_names \o directories
                    size == HeaderSize(strings, n, cfg.archives)
                    names == {cfg.archives[v] : v \in 1..Len(cfg.archives)}
                IN  /\ all_strings' = strings
                    /\ file_dir_ids' = [i \in 1..n |-> FileDirId(files, i)]
                    /\ num_directories' = NumDirectories(directories)
                    /\ header_size' = size
                    /\ disk' = [f \in DOMAIN disk \cup names |->
                                   IF f \in names THEN <<>> ELSE disk[f]]
                    /\ writers' = [v \in 0..(Len(cfg.archives) - 1) |->
                                      IF v = 0 THEN size ELSE 0]
                    /\ results' = [i \in 1..n |-> Pending]
                    /\ packPc' = "compress"
                    /\ UNCHANGED packErr
    /\ UNCHANGED <<cfg, compOrder, processed_files, pack_chunks, chunk_map, headerOut>>
    /\ UNCHANGED <<pathVars, szVars, upVars, coreVars, codecVars, verVars>>

\* One task of the parallel phase: read the source file and compress it.
CompressTask(i) ==
    /\ packPc = "compress"
    /\ results[i] = Pending
    /\ LET entry == cfg.files[i]
           c == compress_data(entry.data, entry.compression)
       IN  results' = [results EXCEPT ![i] =
               IF ~entry.readable THEN Err("Io", "Failed to read")
               ELSE Ok([archive_id |-> entry.archive_file_index,
                        compressed_data |-> c.data,
                        original_len |-> Len(entry.data),
                        flags |-> c.flags])]
    /\ compOrder' = Append(compOrder, i)
    /\ UNCHANGED <<cfg, packPc, packErr, all_strings, file_dir_ids, num_directories,
                   header_size, writers, disk, processed_files, pack_chunks, chunk_map,
                   headerOut>>
    /\ UNCHANGED <<pathVars, szVars, upVars, coreVars, codecVars, verVars>>

\* A collect that waits for every task and goes on to the write phase with the
\* results of the tasks that succeeded.
PackCollectSkipsFailed ==
    /\ packPc = "compress"
    /\ \A i \in DOMAIN results : results[i] # Pending
    /\ processed_files' =
          [k \in 1..Len(SelectSeq(results, LAMBDA r : r.ok)) |->
              SelectSeq(results, LAMBDA r : r.ok)[k].val]
    /\ packPc' = "write"
    /\ UNCHANGED <<cfg, packErr, all_strings, file_dir_ids, num_directories,
                   header_size, writers, disk, results, compOrder, pack_chunks,
                   chunk_map, headerOut>>
    /\ UNCHANGED <<pathVars, szVars, upVars, coreVars, codecVars, verVars>>

\* The end of the parallel phase: an error of some task ends pack (the tasks
\* not yet run are dropped), otherwise the results are collected.
PackCollect ==
    /\ packPc = "compress"
    /\ LET failed == {i \in DOMAIN results : results[i] # Pending /\ ~results[i].ok}
       IN  IF failed # {}
           THEN /\ \E i \in failed : packErr' = results[i]
                /\ packPc' = "failed"
                /\ UNCHANGED processed_files
           ELSE /\ \A i \in DOMAIN results : results[i] # Pending
                /\ processed_files' = Collect(results, compOrder)
                /\ packPc' = "write"
                /\ UNCHANGED packErr
    /\ UNCHANGED <<cfg, all_strings, file_dir_ids, num_directories, header_size,
                   writers, disk, results, compOrder, pack_chunks, chunk_map, headerOut>>
    /\ UNCHANGED <<pathVars, szVars, upVars, coreVars, codecVars, verVars>>

\* One turn of the sequential write loop.
WriteChunk ==
    /\ packPc = "write"
    /\ Len(pack_chunks) < Len(processed_files)
    /\ LET i == Len(pack_chunks) + 1
           p == processed_files[i]
       IN  IF p.archive_id \notin DOMAIN writers
           THEN /\ packPc' = "failed"
                /\ packErr' = Err("Io", "Archive volume not found in config")
                /\ UNCHANGED <<writers, disk, pack_chunks, chunk_map>>
           ELSE LET name == cfg.archives[p.archive_id + 1]
                    offset == writers[p.archive_id]
                IN  /\ disk' = [disk EXCEPT ![name] =
                                   WriteAt(disk[name], offset, p.compressed_data)]
                    /\ writers' = [writers EXCEPT ![p.archive_id] =
                                      offset + Len(p.compressed_data)]
                    /\ pack_chunks' = Append(pack_chunks,
                            [offset |-> offset,
                             compressed_length |-> Len(p.compressed_data),
                             decompressed_length |-> p.original_len,
                             flags |-> p.flags,
                             file |-> p.archive_id])
                    /\ chunk_map' = Append(chunk_map,
                            [dir_id |-> file_dir_ids[i], chunk_ids |-> <<Len(pack_chunks)>>])
                    /\ UNCHANGED <<packPc, packErr>>
    /\ UNCHANGED <<cfg, all_strings, file_dir_ids, num_directories, header_size,
                   results, compOrder, processed_files, headerOut>>
    /\ UNCHANGED <<pathVars, szVars, upVars, coreVars, codecVars, verVars>>

\* The header pass: volume 0 is rewound and the whole header written.
WriteHeader ==
    /\ packPc = "write"
    /\ Len(pack_chunks) = Len(processed_files)
    /\ LET header == HeaderBytes(all_strings, Len(cfg.files), num_directories,
                                 chunk_map, cfg.archives, pack_chunks)
           main == cfg.archives[1]
       IN  /\ disk' = [disk EXCEPT ![main] = WriteAt(disk[main], 0, header)]
           /\ writers' = [writers EXCEPT ![0] = Len(header)]
           /\ headerOut' = header
    /\ packPc' = "done"
    /\ UNCHANGED <<cfg, packErr, all_strings, file_dir_ids, num_directories,
                   header_size, results, compOrder, processed_files, pack_chunks, chunk_map>>
    /\ UNCHANGED <<pathVars, szVars, upVars, coreVars, codecVars, verVars>>

(***************************************************************************)
(* The output tree of unpack: path -> directory or file                    *)
(***************************************************************************)
output_dir == << <<ChP>> >>

DirNode == [kind |-> "dir", data |-> <<>>]

FileNode(data) == [kind |-> "file", data |-> data]

\* std::fs::create_dir_all: every missing prefix becomes a directory; a prefix
\* that is a file fails the call (and then nothing was created, its parents
\* being there already).
RECURSIVE create_dir_all(_, _, _)
create_dir_all(tree, path, k) ==
    IF k > Len(path) THEN Ok(tree)
    ELSE LET p == SubSeq(path, 1, k)
         IN  IF p \in DOMAIN tree
             THEN IF tree[p].kind = "dir" THEN create_dir_all(tree, path, k + 1)
                  ELSE Err("Io", "not a directory")
             ELSE create_dir_all(tree @@ (p :> DirNode), path, k + 1)

\* File::create: a new empty file, or the old one truncated; a directory of
\* that name fails it.
file_create(tree, path) ==
    IF path \in DOMAIN tree /\ tree[path].kind = "dir" THEN Err("Io", "is a directory")
    ELSE Ok([p \in DOMAIN tree \cup {path} |->
                IF p = path THEN FileNode(<<>>) ELSE tree[p]])

\* Path::file_stem of a file name: the name up to its last dot, unless the
\* only dot leads.
file_stem(name) ==
    LET dots == {i \in 2..Len(name) : name[i] = ChDot}
    IN  IF dots = {} THEN name
        ELSE SubSeq(name, 1, (CHOOSE i \in dots : \A j \in dots : j <= i) - 1)

TomlSuffix == <<ChDot, 116, 111, 109, 108>>

(***************************************************************************)
(* unpack_archive                                                          *)
(***************************************************************************)
\* The archive path of a file-map entry: the directory string, a '\' unless it
\* ends with a separator, the file name.
ArchivePathAlwaysSep(strings, num_user_files, dir_id, name) ==
    LET dir_index == num_user_files + dir_id - 1
    IN  IF dir_id > 0 /\ dir_index < Len(strings)
        THEN strings[dir_index + 1] \o <<ChBackslash>> \o name
        ELSE name

ArchivePath(strings, num_user_files, dir_id, name) ==
    LET dir_index == num_user_files + dir_id - 1
        dir_name == IF dir_id > 0 /\ dir_index < Len(strings)
                    THEN strings[dir_index + 1] ELSE <<>>
        with_sep == IF dir_id > 0 /\ dir_index < Len(strings)
                       /\ ~(dir_name # <<>> /\ IsSep(dir_name[Len(dir_name)]))
                    THEN dir_name \o <<ChBackslash>>
                    ELSE dir_name
    IN  with_sep \o name

\* The compression method the descriptor records for a chunk's flags.
DetectCompression(flags) ==
    IF HasFlag(flags, CHUNK_ZLIB) THEN "Zlib"
    ELSE IF HasFlag(flags, CHUNK_BZIP) THEN "Bzip"
    ELSE IF HasFlag(flags, CHUNK_COPYCOMP) THEN "Copy"
    ELSE IF HasFlag(flags, CHUNK_ZERO) THEN "Zero"
    ELSE IF HasFlag(flags, CHUNK_MP3) THEN "Mp3"
    ELSE IF HasFlag(flags, CHUNK_JPEG) THEN "Jpeg"
    ELSE IF HasFlag(flags, CHUNK_LZMA) THEN "Lzma"
    ELSE IF HasFlag(flags, CHUNK_DZ) THEN "Dz"
    ELSE IF HasFlag(flags, CHUNK_COMBUF) THEN "Combuf"
    ELSE IF HasFlag(flags, CHUNK_RANDOMACCESS) THEN "RandomAccess"
    ELSE "Dz"

\* The chunk loop of one file: the decoded chunks appended in chunk-list order,
\* a chunk that cannot be decoded left out; a chunk id outside the table panics.
RECURSIVE ExtractChunks(_, _, _, _, _, _)
ExtractChunks(ids, k, chunkTable, main, volume_files, files) ==
    IF k > Len(ids) THEN [ok |-> TRUE, data |-> <<>>]
    ELSE IF ids[k] + 1 > Len(chunkTable) THEN [ok |-> FALSE, data |-> <<>>]
    ELSE LET got == read_chunk_data_with_volumes(chunkTable[ids[k] + 1], main,
                                                 volume_files, files)
             rest == ExtractChunks(ids, k + 1, chunkTable, main, volume_files, files)
         IN  [ok |-> rest.ok,
              data |-> (IF got.ok THEN got.val ELSE <<>>) \o rest.data]

\* The sizes of the volumes that exist, by volume index.
FileSizes(input, volume_files, files) ==
    [v \in {0} \cup {i \in 1..Len(volume_files) : volume_files[i] \in DOMAIN files} |->
        IF v = 0 THEN Len(files[input]) ELSE Len(files[volume_files[v]])]

\* Lines 8-99: the header is read, the output directory made, the chunk sizes
\* corrected.
UnpackLoaded(meta) ==
    IF ~meta.ok
    THEN /\ upPc' = "failed"
         /\ upErr' = [ok |-> FALSE, err |-> meta.err, msg |-> meta.msg]
         /\ UNCHANGED <<upMeta, upTasks, outTree>>
    ELSE /\ outTree' = create_dir_all(outTree, output_dir, 1).val
         /\ upMeta' = [meta.val EXCEPT !.chunks =
                correct_chunk_sizes(meta.val.chunks,
                    FileSizes(upInput, meta.val.volume_files, disk))]
         /\ upTasks' = [i \in 1..Len(meta.val.map) |-> Pending]
         /\ upPc' = "extract"
         /\ UNCHANGED upErr

UnpackLoad ==
    /\ upPc = "start"
    /\ packPc \in {"idle", "done"}
    /\ IF upInput \notin DOMAIN disk
       THEN /\ upPc' = "failed"
            /\ upErr' = Err("Io", "cannot open archive")
            /\ UNCHANGED <<upMeta, upTasks, outTree>>
       ELSE \E overflow_checks \in BOOLEAN :
              IF overflow_checks /\ CountOverflows(read_archive_settings(disk[upInput]))
              THEN /\ upPc' = "failed"
                   /\ upErr' = Err("Panic", "arithmetic overflow")
                   /\ UNCHANGED <<upMeta, upTasks, outTree>>
              ELSE UnpackLoaded(cli_read_metadata(disk[upInput]))
    /\ UNCHANGED <<upInput, upCreated, upConfig>>
    /\ UNCHANGED <<pathVars, szVars, packVars, coreVars, codecVars, verVars>>

\* One task of the parallel extraction: file-map entry i.
ExtractTask(i) ==
    /\ upPc = "extract"
    /\ upTasks[i] = Pending
    /\ LET m == upMeta
           entry == m.map[i]
       IN  IF i > Len(m.strings)
           THEN /\ upTasks' = [upTasks EXCEPT ![i] = Err("Panic", "index out of bounds")]
                /\ UNCHANGED <<outTree, upCreated>>
           ELSE
       LET full_archive_path == ArchivePath(m.strings, m.settings.num_user_files,
                                            entry.dir_id, m.strings[i])
           sanitized_path == resolve_relative_path(full_archive_path)
       IN  IF ~sanitized_path.ok
           THEN /\ upTasks' = [upTasks EXCEPT ![i] = sanitized_path]
                /\ UNCHANGED <<outTree, upCreated>>
           ELSE
       LET full_out_path == output_dir \o sanitized_path.val
           dirs == create_dir_all(outTree, parent(full_out_path), 1)
       IN  IF sanitized_path.val = <<Dot>>
           THEN /\ upTasks' = [upTasks EXCEPT ![i] = Err("Io", "is a directory")]
                /\ UNCHANGED <<outTree, upCreated>>
           ELSE IF ~dirs.ok
           THEN /\ upTasks' = [upTasks EXCEPT ![i] = dirs]
                /\ UNCHANGED <<outTree, upCreated>>
           ELSE
       LET made == {[entry |-> i, path |-> p] : p \in DOMAIN dirs.val \ DOMAIN outTree}
           file == file_create(dirs.val, full_out_path)
       IN  IF ~file.ok
           THEN /\ upTasks' = [upTasks EXCEPT ![i] = file]
                /\ outTree' = dirs.val
                /\ upCreated' = upCreated \cup made
           ELSE
       LET first_missing == entry.chunk_ids # <<>>
                              /\ entry.chunk_ids[1] + 1 > Len(m.chunks)
           out == ExtractChunks(entry.chunk_ids, 1, m.chunks, disk[upInput],
                                m.volume_files, disk)
           first == m.chunks[entry.chunk_ids[1] + 1]
       IN  /\ upCreated' = upCreated \cup made \cup {[entry |-> i, path |-> full_out_path]}
           /\ outTree' = [file.val EXCEPT ![full_out_path] =
                             FileNode(IF first_missing THEN <<>> ELSE out.data)]
           /\ upTasks' = [upTasks EXCEPT ![i] =
                  IF first_missing \/ ~out.ok THEN Err("Panic", "index out of bounds")
                  ELSE Ok([path |-> sanitized_path.val,
                           archive_file_index |->
                               IF entry.chunk_ids = <<>> THEN 0 ELSE first.file,
                           compression |->
                               IF entry.chunk_ids = <<>> THEN "Dz"
                               ELSE DetectCompression(first.flags)])]
    /\ UNCHANGED <<upPc, upInput, upErr, upMeta, upConfig>>
    /\ UNCHANGED <<pathVars, szVars, packVars, coreVars, codecVars, verVars>>

\* The end of the parallel phase: an error of some task ends unpack; otherwise
\* the descriptor is written into the output directory.
UnpackFinish ==
    /\ upPc = "extract"
    /\ LET failed == {i \in DOMAIN upTasks : upTasks[i] # Pending /\ ~upTasks[i].ok}
           config_path == output_dir \o <<file_stem(upInput) \o TomlSuffix>>
           written == file_create(outTree, config_path)
       IN  IF failed # {}
           THEN /\ \E i \in failed : upErr' = upTasks[i]
                /\ upPc' = "failed"
                /\ UNCHANGED <<upConfig, outTree, upCreated>>
           ELSE /\ \A i \in DOMAIN upTasks : upTasks[i] # Pending
                /\ IF ~written.ok
                   THEN /\ upPc' = "failed"
                        /\ upErr' = written
                        /\ UNCHANGED <<upConfig, outTree, upCreated>>
                   ELSE /\ upConfig' = [archives |-> <<upInput>> \o upMeta.volume_files,
                                        base_dir |-> Dot,
                                        files |-> [i \in 1..Len(upTasks) |-> upTasks[i].val],
                                        options |-> upMeta.range_settings]
                        /\ outTree' = written.val
                        /\ upCreated' = upCreated \cup {[entry |-> 0, path |-> config_path]}
                        /\ upPc' = "done"
                        /\ UNCHANGED upErr
    /\ UNCHANGED <<upInput, upMeta, upTasks>>
    /\ UNCHANGED <<pathVars, szVars, packVars, coreVars, codecVars, verVars>>

(***************************************************************************)
(* do_unpack of the core crate: load, build, extract, describe             *)
(***************************************************************************)
\* flags & bit, for a single-bit mask.
BitOf(flags, bit) == IF HasFlag(flags, bit) THEN bit ELSE 0

\* ChunkFlags::from_bits_truncate: the defined bits of the mask.
from_bits_truncate(flags) ==
    BitOf(flags, CHUNK_COMBUF) + BitOf(flags, CHUNK_DZ) + BitOf(flags, CHUNK_ZLIB)
      + BitOf(flags, CHUNK_BZIP) + BitOf(flags, CHUNK_MP3) + BitOf(flags, CHUNK_JPEG)
      + BitOf(flags, CHUNK_ZERO) + BitOf(flags, CHUNK_COPYCOMP)
      + BitOf(flags, CHUNK_LZMA) + BitOf(flags, CHUNK_RANDOMACCESS)

\* The arms of the match in codec.rs decompress.
DecompressMatch(input, flags_enum) ==
    IF flags_enum = CHUNK_LZMA THEN Decode("Lzma", input)
    ELSE IF flags_enum = CHUNK_ZLIB THEN Decode("Zlib", input)
    ELSE IF flags_enum = CHUNK_BZIP THEN Decode("Bzip", input)
    ELSE Ok(input)

\* codec.rs decompress: the defined bits of the flags select a decoder only
\* when they are exactly LZMA, ZLIB or BZIP; anything else is copied.
decompress(input, flags) == DecompressMatch(input, from_bits_truncate(flags))

\* What decompress has written to the output when it returns, with or without
\* an error.
DecompressWritten(input, flags_enum) ==
    IF flags_enum = CHUNK_LZMA THEN DecodeWritten("Lzma", input)
    ELSE IF flags_enum = CHUNK_ZLIB THEN DecodeWritten("Zlib", input)
    ELSE IF flags_enum = CHUNK_BZIP THEN DecodeWritten("Bzip", input)
    ELSE input

decompress_written(input, flags) ==
    DecompressWritten(input, from_bits_truncate(flags))

\* str::rfind of a character: the last position of c in s, 0 when there is none.
rfind(s, c) ==
    LET at == {i \in 1..Len(s) : s[i] = c}
    IN  IF at = {} THEN 0 ELSE CHOOSE i \in at : \A j \in at : j <= i

\* The path extract hands to the sink for a file-map entry.
RelPath(meta, entry) ==
    LET fname == meta.user_files[entry.id + 1]
        raw_dir == IF entry.dir_idx < Len(meta.directories)
                   THEN meta.directories[entry.dir_idx + 1]
                   ELSE CURRENT_DIR_STR
    IN  IF raw_dir = CURRENT_DIR_STR \/ raw_dir = <<>> THEN fname
        ELSE raw_dir \o <<ChSlash>> \o fname

\* The directory extract asks the sink to make for a path: what precedes the
\* last '/', or the last '\' when there is no '/'; nothing when there is neither.
ParentOfRelPath(rel_path) ==
    LET last_slash == IF rfind(rel_path, ChSlash) # 0 THEN rfind(rel_path, ChSlash)
                      ELSE rfind(rel_path, ChBackslash)
    IN  IF last_slash = 0 THEN Err("None", "no separator")
        ELSE Ok(SubSeq(rel_path, 1, last_slash - 1))

\* The raw bytes of a chunk: real_c_len bytes at its offset in its volume.
CoreRawBytes(chunk, source, split_file_names) ==
    Take(IF chunk.file_idx = 0 THEN source.main
         ELSE source.splits[split_file_names[chunk.file_idx]],
         chunk.offset, chunk.real_c_len)

\* What a chunk whose decode fails has left in the writer of the file.
CoreChunkWritten(chunk, source, split_file_names) ==
    IF chunk.file_idx # 0
       /\ (chunk.file_idx > Len(split_file_names)
            \/ split_file_names[chunk.file_idx] \notin DOMAIN source.splits)
    THEN <<>>
    ELSE decompress_written(CoreRawBytes(chunk, source, split_file_names), chunk.flags)

\* One chunk of a file: what is written for it, or the error. With keep_raw the
\* raw bytes are written after what the failed decode has left.
CoreChunkData(chunk, source, split_file_names, keep_raw) ==
    IF chunk.file_idx # 0 /\ chunk.file_idx > Len(split_file_names)
    THEN Err("Generic", "Invalid archive file index")
    ELSE IF chunk.file_idx # 0
            /\ split_file_names[chunk.file_idx] \notin DOMAIN source.splits
    THEN Err("Io", "cannot open split")
    ELSE LET buf == IF chunk.file_idx = 0 THEN source.main
                    ELSE source.splits[split_file_names[chunk.file_idx]]
             raw == Take(buf, chunk.offset, chunk.real_c_len)
             out == decompress(raw, chunk.flags)
         IN  IF out.ok THEN out
             ELSE IF keep_raw
             THEN Ok(CoreChunkWritten(chunk, source, split_file_names) \o raw)
             ELSE out

\* The chunk loop of one entry: the output written so far and the first error.
\* A chunk id that is not in the table is passed over.
RECURSIVE CoreExtractChunks(_, _, _, _, _, _)
CoreExtractChunks(ids, k, processed, source, split_file_names, keep_raw) ==
    IF k > Len(ids) THEN [res |-> Ok(<<>>), data |-> <<>>]
    ELSE IF ids[k] + 1 > Len(processed)
    THEN CoreExtractChunks(ids, k + 1, processed, source, split_file_names, keep_raw)
    ELSE LET got == CoreChunkData(processed[ids[k] + 1], source, split_file_names,
                                  keep_raw)
             rest == CoreExtractChunks(ids, k + 1, processed, source,
                                       split_file_names, keep_raw)
         IN  IF ~got.ok
             THEN [res |-> got,
                   data |-> CoreChunkWritten(processed[ids[k] + 1], source,
                                             split_file_names)]
             ELSE [res |-> rest.res, data |-> got.val \o rest.data]

\* utils.rs decode_flags: the names of the bits set, in the order of the tests;
\* the empty mask is COPY.
FlagName(f, bit, name) == IF HasFlag(f, bit) THEN <<name>> ELSE <<>>

decode_flags(f) ==
    IF f = 0 THEN <<"COPY">>
    ELSE FlagName(f, CHUNK_COMBUF, "COMBUF") \o FlagName(f, CHUNK_DZ, "DZ_RANGE")
           \o FlagName(f, CHUNK_ZLIB, "ZLIB") \o FlagName(f, CHUNK_BZIP, "BZIP")
           \o FlagName(f, CHUNK_MP3, "MP3") \o FlagName(f, CHUNK_JPEG, "JPEG")
           \o FlagName(f, CHUNK_ZERO, "ZERO") \o FlagName(f, CHUNK_COPYCOMP, "COPY")
           \o FlagName(f, CHUNK_LZMA, "LZMA")
           \o FlagName(f, CHUNK_RANDOMACCESS, "RANDOM_ACCESS")

\* utils.rs encode_flags: the bits of the names, or-ed together; a name that is
\* none of the ten adds nothing.
NameBit(name) ==
    CASE name = "COMBUF" -> CHUNK_COMBUF
      [] name = "DZ_RANGE" -> CHUNK_DZ
      [] name = "ZLIB" -> CHUNK_ZLIB
      [] name = "BZIP" -> CHUNK_BZIP
      [] name = "MP3" -> CHUNK_MP3
      [] name = "JPEG" -> CHUNK_JPEG
      [] name = "ZERO" -> CHUNK_ZERO
      [] name = "COPY" -> CHUNK_COPYCOMP
      [] name = "LZMA" -> CHUNK_LZMA
      [] name = "RANDOM_ACCESS" -> CHUNK_RANDOMACCESS
      [] OTHER -> 0

\* res | bit, for a single-bit mask or 0.
BitOr(res, bit) == IF bit = 0 \/ HasFlag(res, bit) THEN res ELSE res + bit

\* An encode_flags that takes the first name only.
EncodeLoopFirstOnly(flags_vec, k, res) ==
    IF k > Len(flags_vec) THEN res ELSE BitOr(res, NameBit(flags_vec[k]))

RECURSIVE EncodeLoop(_, _, _)
EncodeLoop(flags_vec, k, res) ==
    IF k > Len(flags_vec) THEN res
    ELSE EncodeLoop(flags_vec, k + 1, BitOr(res, NameBit(flags_vec[k])))

EncodeCopyFallback(flags_vec, res) ==
    IF res = 0 /\ \E k \in 1..Len(flags_vec) : flags_vec[k] = "COPY"
    THEN CHUNK_COPYCOMP
    ELSE res

encode_flags(flags_vec) ==
    IF flags_vec = <<>> THEN 0
    ELSE EncodeCopyFallback(flags_vec, EncodeLoop(flags_vec, 1, 0))

\* The directory string of a file-map entry.
RawDir(meta, entry) ==
    IF entry.dir_idx < Len(meta.directories) THEN meta.directories[entry.dir_idx + 1]
    ELSE CURRENT_DIR_STR

\* generate_config_struct
generate_config_struct(meta, processed) ==
    [archive |-> [version |-> meta.version,
                  total_files |-> Len(meta.map_entries),
                  total_directories |-> Len(meta.directories),
                  total_chunks |-> Len(processed)],
     archive_files |-> meta.split_file_names,
     range_settings |-> meta.range_settings,
     files |-> [k \in 1..Len(meta.map_entries) |->
                   [path |-> RelPath(meta, meta.map_entries[k]),
                    directory |-> RawDir(meta, meta.map_entries[k]),
                    filename |-> meta.user_files[meta.map_entries[k].id + 1],
                    chunks |-> meta.map_entries[k].chunk_ids]],
     chunks |-> [k \in 1..Len(processed) |->
                    [id |-> processed[k].id,
                     offset |-> processed[k].offset,
                     size_compressed |-> processed[k].real_c_len,
                     size_decompressed |-> processed[k].d_len,
                     flags |-> decode_flags(processed[k].flags),
                     archive_file_index |-> processed[k].file_idx]]]

\* ArchiveMetadata::load
CoreLoad ==
    /\ corePc = "load"
    /\ coreMeta' = load(coreSource.main)
    /\ corePc' = IF coreMeta'.ok THEN "build" ELSE "failed"
    /\ UNCHANGED <<coreSource, coreKeepRaw, corePlan, coreTasks, sinkDirs, sinkFiles,
                   coreConfig>>
    /\ UNCHANGED <<pathVars, szVars, packVars, upVars, codecVars, verVars>>

\* UnpackPlan::build
CoreBuild ==
    /\ corePc = "build"
    /\ corePlan' = calculate_chunk_sizes(coreMeta.val,
                        [n \in DOMAIN coreSource.splits |-> Len(coreSource.splits[n])])
    /\ IF corePlan'.ok
       THEN /\ corePc' = "extract"
            /\ coreTasks' = [i \in 1..Len(coreMeta.val.map_entries) |-> Pending]
       ELSE /\ corePc' = "failed"
            /\ UNCHANGED coreTasks
    /\ UNCHANGED <<coreSource, coreKeepRaw, coreMeta, sinkDirs, sinkFiles, coreConfig>>
    /\ UNCHANGED <<pathVars, szVars, packVars, upVars, codecVars, verVars>>

\* One task of UnpackPlan::extract: a file-map entry.
CoreExtract(i) ==
    /\ corePc = "extract"
    /\ coreTasks[i] = Pending
    /\ LET meta == coreMeta.val
           rel_path == RelPath(meta, meta.map_entries[i])
           dir == ParentOfRelPath(rel_path)
           out == CoreExtractChunks(meta.map_entries[i].chunk_ids, 1, corePlan.val,
                                    coreSource, meta.split_file_names, coreKeepRaw)
       IN  /\ sinkDirs' = IF dir.ok THEN sinkDirs \cup {dir.val} ELSE sinkDirs
           /\ sinkFiles' = [p \in DOMAIN sinkFiles \cup {rel_path} |->
                               IF p = rel_path THEN out.data ELSE sinkFiles[p]]
           /\ coreTasks' = [coreTasks EXCEPT ![i] = out.res]
    /\ UNCHANGED <<corePc, coreSource, coreKeepRaw, coreMeta, corePlan, coreConfig>>
    /\ UNCHANGED <<pathVars, szVars, packVars, upVars, codecVars, verVars>>

\* The end of extract, and generate_config_struct.
CoreFinish ==
    /\ corePc = "extract"
    /\ LET failed == {i \in DOMAIN coreTasks : coreTasks[i] # Pending /\ ~coreTasks[i].ok}
           meta == coreMeta.val
       IN  IF failed # {}
           THEN /\ corePc' = "failed"
                /\ UNCHANGED coreConfig
           ELSE /\ \A i \in DOMAIN coreTasks : coreTasks[i] # Pending
                /\ corePc' = "done"
                /\ coreConfig' = generate_config_struct(meta, corePlan.val)
    /\ UNCHANGED <<coreSource, coreKeepRaw, coreMeta, corePlan, coreTasks, sinkDirs,
                   sinkFiles>>
    /\ UNCHANGED <<pathVars, szVars, packVars, upVars, codecVars, verVars>>

(***************************************************************************)
(* Driver of the size corrector: one chunk table, corrected once.          *)
(***************************************************************************)
MaxChunks == 2

SplitName == <<ChP>>
SizeOffsets == {100, 500, 950}
SizeHeadLens == {1000, 7}
SizeVolumes == {0, 1}
MainLen == 900
SplitLen == 600

SizeChunkChoices ==
    {[offset |-> o, head |-> h, file_idx |-> f] :
        o \in SizeOffsets, h \in SizeHeadLens, f \in SizeVolumes}

SizeTables == StringsUpTo(SizeChunkChoices, MaxChunks)

InitSizes ==
    /\ CodecIdle
    /\ VerifyIdle
    /\ PathIdle
    /\ PackIdle
    /\ UnpackIdle
    /\ CoreIdle
    /\ szPc = "ready"
    /\ \E t \in SizeTables, names \in {<<>>, <<SplitName>>} :
          szMeta = [raw_chunks |->
                        [i \in 1..Len(t) |->
                            RawChunk(i - 1, t[i].offset, t[i].head, 0, 0, t[i].file_idx)],
                    split_file_names |-> names,
                    main_file_len |-> MainLen]
    /\ szSplitLens \in {<<>>, [n \in {SplitName} |-> SplitLen]}
    /\ szOut = Ok(<<>>)

Build ==
    /\ szPc = "ready"
    /\ szOut' = calculate_chunk_sizes(szMeta, szSplitLens)
    /\ szPc' = "done"
    /\ UNCHANGED <<szMeta, szSplitLens, pathVars, packVars, upVars, coreVars, codecVars, verVars>>

NextSizes == Build

SpecSizes == InitSizes /\ [][NextSizes]_vars

(***************************************************************************)
(* Claims about the size corrector                                         *)
(***************************************************************************)
\* Chunk j comes after chunk i in its volume's order by offset (ties in table
\* order).
After(chunks, i, j) ==
    /\ chunks[j].file_idx = chunks[i].file_idx
    /\ \/ chunks[j].offset > chunks[i].offset
       \/ (chunks[j].offset = chunks[i].offset /\ j > i)

\* The offset that follows chunk i: its successor's, or the volume's length.
NextOffsetOf(chunks, i, size) ==
    LET later == {j \in 1..Len(chunks) : After(chunks, i, j)}
    IN  IF later = {} THEN size
        ELSE LET j == CHOOSE a \in later :
                          \A b \in later : a = b \/ After(chunks, a, b)
             IN  chunks[j].offset

\* C4: after size correction every chunk's effective compressed length is the
\* gap to the next offset of its volume (or to the volume's length for the
\* last) when that is not negative, and the header's recorded length otherwise.
C4_CorrectedLengths ==
    (szPc = "done" /\ szOut.ok) =>
        \A i \in 1..Len(szMeta.raw_chunks) :
            LET c == szMeta.raw_chunks[i]
                size == IF c.file_idx = 0 THEN szMeta.main_file_len
                        ELSE szSplitLens[szMeta.split_file_names[c.file_idx]]
                next == NextOffsetOf(szMeta.raw_chunks, i, size)
            IN  szOut.val[i].real_c_len =
                    IF next >= c.offset THEN next - c.offset ELSE c.head_c_len

\* Offsets 100 and 500 in a 900-byte volume, recorded lengths 1000 and 1000.
C4_Witness ==
    /\ szPc = "done"
    /\ szOut.ok
    /\ Len(szOut.val) = 2
    /\ szOut.val[1].file_idx = 0 /\ szOut.val[2].file_idx = 0
    /\ szOut.val[1].offset = 500 /\ szOut.val[2].offset = 100
    /\ szOut.val[1].head_c_len = 1000 /\ szOut.val[2].head_c_len = 1000
    /\ szOut.val[1].real_c_len = 400 /\ szOut.val[2].real_c_len = 400

\* Chunks i and j lie on the same volume at the same offset.
Tied(chunks, i, j) ==
    /\ i # j
    /\ chunks[i].file_idx = chunks[j].file_idx
    /\ chunks[i].offset = chunks[j].offset

\* C18 as stated: the sort by offset is stable, and chunks that share volume
\* and offset keep the compressed length recorded in the header.
C18_TiesKeepHeader ==
    (szPc = "done" /\ szOut.ok) =>
        \A i \in 1..Len(szMeta.raw_chunks) :
            (\E j \in 1..Len(szMeta.raw_chunks) : Tied(szMeta.raw_chunks, i, j)) =>
                szOut.val[i].real_c_len = szMeta.raw_chunks[i].head_c_len

\* C18 amended: the sort by offset is stable, so of the chunks that share
\* volume and offset every one but the last in table order gets the effective
\* length 0, and the last one gets the gap to the next larger offset of the
\* volume, or to the volume's length; the header's length is kept only when
\* that gap is negative.
C18_TiesGetZero ==
    (szPc = "done" /\ szOut.ok) =>
        \A i \in 1..Len(szMeta.raw_chunks) :
            LET chunks == szMeta.raw_chunks
                c == chunks[i]
                ties == {j \in 1..Len(chunks) : Tied(chunks, i, j)}
                above == {chunks[j].offset : j \in
                             {a \in 1..Len(chunks) :
                                 /\ chunks[a].file_idx = c.file_idx
                                 /\ chunks[a].offset > c.offset}}
                size == IF c.file_idx = 0 THEN szMeta.main_file_len
                        ELSE szSplitLens[szMeta.split_file_names[c.file_idx]]
                next == IF above = {} THEN size
                        ELSE CHOOSE o \in above : \A q \in above : o <= q
            IN  ties # {} =>
                    szOut.val[i].real_c_len =
                        IF \E j \in ties : j > i THEN 0
                        ELSE IF next >= c.offset THEN next - c.offset
                        ELSE c.head_c_len

\* Two chunks at offset 100 of the 900-byte main volume, recorded lengths 1000
\* and 7: the first gets 0, the second 800.
C18_Witness ==
    /\ szPc = "done"
    /\ szOut.ok
    /\ Len(szOut.val) = 2
    /\ szOut.val[1].file_idx = 0 /\ szOut.val[2].file_idx = 0
    /\ szOut.val[1].offset = 100 /\ szOut.val[2].offset = 100
    /\ szOut.val[1].head_c_len = 1000 /\ szOut.val[2].head_c_len = 7
    /\ szOut.val[1].real_c_len = 0 /\ szOut.val[2].real_c_len = 800

(***************************************************************************)
(* Driver of the path normalizer: one operation applied to one input.      *)
(***************************************************************************)
PathStrings == StringsUpTo(PathChars, MaxPathLen)

ComponentChoices == {Prefix, RootDir, CurDir, ParentDir, Normal(<<ChE>>), Normal(<<ChP>>)}

\* What Path::components() can yield: a prefix only first, a root only first or
\* right after the prefix, a current-dir only first.
WellFormedComps(cs) ==
    \A i \in 1..Len(cs) :
        /\ cs[i].kind = "Prefix" => i = 1
        /\ cs[i].kind = "RootDir" => (i = 1 \/ (i = 2 /\ cs[1].kind = "Prefix"))
        /\ cs[i].kind = "CurDir" => i = 1

PathInputs == {cs \in StringsUpTo(ComponentChoices, MaxComps) : WellFormedComps(cs)}

LegacyBase == <<<<ChP>>>>

InitPath ==
    /\ CodecIdle
    /\ VerifyIdle
    /\ SizesIdle
    /\ PackIdle
    /\ UnpackIdle
    /\ CoreIdle
    /\ pathPc = "ready"
    /\ pathStr \in PathStrings
    /\ pathComps \in PathInputs
    /\ (pathStr = <<>> \/ pathComps = <<>>)
    /\ pathOut = NoResult

Resolve ==
    /\ pathPc = "ready"
    /\ pathOut' = [op |-> "resolve", res |-> resolve_relative_path(pathStr)]
    /\ pathPc' = "done"
    /\ UNCHANGED <<pathStr, pathComps, szVars, packVars, upVars, coreVars, codecVars, verVars>>

Sanitize ==
    /\ pathPc = "ready"
    /\ pathOut' = [op |-> "sanitize", res |-> sanitize_path(pathComps)]
    /\ pathPc' = "done"
    /\ UNCHANGED <<pathStr, pathComps, szVars, packVars, upVars, coreVars, codecVars, verVars>>

LegacySanitize ==
    /\ pathPc = "ready"
    /\ pathOut' = [op |-> "legacy_sanitize",
                   res |-> legacy_sanitize_path(LegacyBase, pathComps)]
    /\ pathPc' = "done"
    /\ UNCHANGED <<pathStr, pathComps, szVars, packVars, upVars, coreVars, codecVars, verVars>>

FromArchive ==
    /\ pathPc = "ready"
    /\ pathOut' = [op |-> "from_archive", res |-> from_archive_format(pathStr)]
    /\ pathPc' = "done"
    /\ UNCHANGED <<pathStr, pathComps, szVars, packVars, upVars, coreVars, codecVars, verVars>>

NextPath == Resolve \/ Sanitize \/ LegacySanitize \/ FromArchive

SpecPath == InitPath /\ [][NextPath]_vars

(***************************************************************************)
(* Claims about the path normalizer                                        *)
(***************************************************************************)
HasBadPart(s) ==
    \E i \in 1..Len(SplitSeps(s)) :
        SplitSeps(s)[i] = DotDot \/ ContainsColon(SplitSeps(s)[i])

\* C9: from-archive (resolve_relative_path) returns an InvalidInput error for
\* every input that, split on '/' and '\', has a component equal to '..' or a
\* component containing ':'; it returns a path for every other input.
C9_ResolveRejects ==
    pathOut.op = "resolve" =>
        IF HasBadPart(pathStr)
        THEN ~pathOut.res.ok /\ pathOut.res.err = "InvalidInput"
        ELSE pathOut.res.ok

C9_Witness ==
    /\ pathOut.op = "resolve"
    /\ ~pathOut.res.ok
    /\ \E i \in 1..Len(SplitSeps(pathStr)) : ContainsColon(SplitSeps(pathStr)[i])
    /\ \A i \in 1..Len(SplitSeps(pathStr)) : SplitSeps(pathStr)[i] # DotDot

NormalNames(cs) ==
    LET RECURSIVE Go(_)
        Go(k) == IF k > Len(cs) THEN <<>>
                 ELSE IF cs[k].kind = "Normal" THEN <<cs[k].name>> \o Go(k + 1)
                 ELSE Go(k + 1)
    IN  Go(1)

HasParentDir(cs) == \E i \in 1..Len(cs) : cs[i].kind = "ParentDir"

KeptParts(s) == SelectSeq(SplitSeps(s), IsKeptPart)

\* s is built from separators and normal components only: no part is ".." and
\* no part is ".", and no part holds a ':'.
OnlyNormalParts(s) ==
    \A i \in 1..Len(SplitSeps(s)) :
        /\ SplitSeps(s)[i] # Dot
        /\ SplitSeps(s)[i] # DotDot
        /\ ~ContainsColon(SplitSeps(s)[i])

\* s is one or more components separated by single backslashes.
BackslashForm(s) ==
    /\ \A i \in 1..Len(s) : s[i] # ChSlash
    /\ \A i \in 1..Len(SplitSeps(s)) : SplitSeps(s)[i] # <<>>

\* C11 as stated: to-archive(from-archive(s)) = s for every s built only from
\* '/' and '\' separators and normal components.
C11_ArchiveRoundTrip ==
    (pathOut.op \in {"resolve", "from_archive"}
        /\ OnlyNormalParts(pathStr) /\ pathOut.res.ok) =>
        to_archive_format(pathOut.res.val) = pathStr

\* C11 amended: for every s built only from separators and normal components
\* that from-archive accepts, to-archive(from-archive(s)) is the non-empty
\* components of s joined by single backslashes ("." when resolve_relative_path
\* finds none), so it is s itself when s is components separated by single
\* backslashes.
C11_BackslashJoined ==
    (pathOut.op \in {"resolve", "from_archive"}
        /\ OnlyNormalParts(pathStr) /\ pathOut.res.ok) =>
        /\ to_archive_format(pathOut.res.val) =
              IF KeptParts(pathStr) = <<>> THEN Dot
              ELSE JoinWith(KeptParts(pathStr), ChBackslash)
        /\ BackslashForm(pathStr) => to_archive_format(pathOut.res.val) = pathStr
        /\ pathOut.op = "from_archive" => KeptParts(pathStr) # <<>>

C11_Witness ==
    /\ pathOut.op = "from_archive"
    /\ pathStr = <<ChE, ChBackslash, ChE, ChDot>>
    /\ pathOut.res.ok
    /\ to_archive_format(pathOut.res.val) = pathStr

\* C19: for every input resolve_relative_path accepts, the result is the
\* relative path of the input's non-empty, non-"." parts in their order, the
\* input split on both '/' and '\' (so a leading separator is dropped); when no
\* part remains the result is ".".
C19_ResolveComponents ==
    (pathOut.op = "resolve" /\ pathOut.res.ok) =>
        /\ pathOut.res.val =
              IF KeptParts(pathStr) = <<>> THEN <<Dot>> ELSE KeptParts(pathStr)
        /\ \A i \in 1..Len(pathOut.res.val) :
              /\ pathOut.res.val[i] # <<>>
              /\ \A j \in 1..Len(pathOut.res.val[i]) : ~IsSep(pathOut.res.val[i][j])

C19_Witness ==
    /\ pathOut.op = "resolve"
    /\ pathStr = <<ChBackslash, ChDot, ChSlash, ChE>>
    /\ pathOut.res = Ok(<<<<ChE>>>>)


(***************************************************************************)
(* Driver of the pipeline: a descriptor is packed and the archive unpacked. *)
(***************************************************************************)
MaxFiles == 2

MainName == <<ChE>>

PackPaths == { << <<ChE>> >>, << <<ChP>>, <<ChE>> >>, << <<ChP>>, <<ChP>> >> }
PackMethods == {"Copy", "Zlib", "Zero", "Dz"}
PackData == {<<>>, <<7, 9>>}
PackVolumes == {0, 1}

\* A file of the descriptor and its source on disk (a missing source cannot be
\* read).
PackEntries ==
    {e \in [path : PackPaths, archive_file_index : PackVolumes,
            compression : PackMethods, data : PackData, readable : BOOLEAN] :
        e.readable \/ e.data = <<>>}

\* The descriptor lists each target path once.
PackFileLists ==
    {fs \in StringsUpTo(PackEntries, MaxFiles) :
        \A i, j \in 1..Len(fs) : fs[i].path = fs[j].path => i = j}

Init ==
    /\ CodecIdle
    /\ VerifyIdle
    /\ PathIdle
    /\ SizesIdle
    /\ CoreIdle
    /\ cfg \in [files : PackFileLists, archives : {<<MainName>>, <<MainName, SplitName>>}]
    /\ disk = NoFiles
    /\ PackRest("start")
    /\ upInput = MainName
    /\ UnpackRest("start")

Next ==
    \/ PackPrepare
    \/ \E i \in DOMAIN results : CompressTask(i)
    \/ PackCollect
    \/ WriteChunk
    \/ WriteHeader
    \/ UnpackLoad
    \/ \E i \in DOMAIN upTasks : ExtractTask(i)
    \/ UnpackFinish

Spec == Init /\ [][Next]_vars

(***************************************************************************)
(* Claims about the pipeline                                               *)
(***************************************************************************)
\* What the descriptor alone determines: the payload of file k, the payload
\* of a volume, the offset of file k in its volume.
PayloadOf(k) == compress_data(cfg.files[k].data, cfg.files[k].compression).data

RECURSIVE PayloadOfVolume(_, _)
PayloadOfVolume(v, k) ==
    IF k = 0 THEN <<>>
    ELSE PayloadOfVolume(v, k - 1)
           \o (IF cfg.files[k].archive_file_index = v THEN PayloadOf(k) ELSE <<>>)

OffsetOf(k) ==
    (IF cfg.files[k].archive_file_index = 0 THEN header_size ELSE 0)
        + Len(PayloadOfVolume(cfg.files[k].archive_file_index, k - 1))

ChunkOf(k) ==
    [offset |-> OffsetOf(k),
     compressed_length |-> Len(PayloadOf(k)),
     decompressed_length |-> Len(cfg.files[k].data),
     flags |-> MethodFlags(cfg.files[k].compression),
     file |-> cfg.files[k].archive_file_index]

\* C1: the header pack wrote on volume 0, parsed by the read sequence of
\* unpack_archive and by ArchiveMetadata::load, gives back what the writer
\* recorded: the counts, the string table, the file map, the chunk settings,
\* every chunk record and the auxiliary volume list.
C1_HeaderRoundTrip ==
    packPc = "done" =>
        LET main == disk[cfg.archives[1]]
            r == cli_read_metadata(main)
            l == load(main)
        IN  /\ r.ok
            /\ r.val.settings.num_user_files = Len(cfg.files)
            /\ r.val.settings.num_directories = num_directories
            /\ r.val.strings = all_strings
            /\ r.val.map = chunk_map
            /\ r.val.chunk_settings = [num_archive_files |-> Len(cfg.archives),
                                       num_chunks |-> Len(pack_chunks)]
            /\ r.val.chunks = pack_chunks
            /\ r.val.volume_files = Tail(cfg.archives)
            /\ l.ok
            /\ l.val.user_files \o Tail(l.val.directories) = all_strings
            /\ Len(l.val.user_files) = Len(cfg.files)
            /\ Len(l.val.directories) = num_directories
            /\ [i \in 1..Len(l.val.map_entries) |->
                   [dir_id |-> l.val.map_entries[i].dir_idx,
                    chunk_ids |-> l.val.map_entries[i].chunk_ids]] = chunk_map
            /\ l.val.num_arch_files = Len(cfg.archives)
            /\ [i \in 1..Len(l.val.raw_chunks) |->
                   [offset |-> l.val.raw_chunks[i].offset,
                    compressed_length |-> l.val.raw_chunks[i].head_c_len,
                    decompressed_length |-> l.val.raw_chunks[i].d_len,
                    flags |-> l.val.raw_chunks[i].flags,
                    file |-> l.val.raw_chunks[i].file_idx]] = pack_chunks
            /\ l.val.split_file_names = Tail(cfg.archives)

C1_Witness ==
    /\ packPc = "done"
    /\ Len(cfg.files) = 2
    /\ Len(all_strings) = 3
    /\ Len(cfg.archives) = 2
    /\ HasDzChunk(pack_chunks)
    /\ cli_read_metadata(disk[cfg.archives[1]]).ok

\* C6: the bytes reserved for the header on volume 0 are the bytes the header
\* pass writes, so that no header byte lands on payload.
C6_HeaderBudget == packPc = "done" => header_size = Len(headerOut)

\* C7: whatever order the compression tasks finish in, file i gets chunk i-1
\* (its only chunk) with the offset and lengths the descriptor determines, and
\* the volumes on disk are those the descriptor determines.
C7_OrderIndependent ==
    /\ packPc \in {"write", "done"} =>
          \A k \in 1..Len(pack_chunks) :
              /\ chunk_map[k] = [dir_id |-> file_dir_ids[k], chunk_ids |-> <<k - 1>>]
              /\ pack_chunks[k] = ChunkOf(k)
    /\ packPc = "done" =>
          /\ Len(pack_chunks) = Len(cfg.files)
          /\ \A v \in 0..(Len(cfg.archives) - 1) :
                disk[cfg.archives[v + 1]] =
                    IF v = 0
                    THEN WriteAt(WriteAt(<<>>, header_size,
                                         PayloadOfVolume(0, Len(cfg.files))),
                                 0,
                                 HeaderBytes(all_strings, Len(cfg.files), num_directories,
                                     [k \in 1..Len(cfg.files) |->
                                         [dir_id |-> file_dir_ids[k],
                                          chunk_ids |-> <<k - 1>>]],
                                     cfg.archives,
                                     [k \in 1..Len(cfg.files) |-> ChunkOf(k)]))
                    ELSE PayloadOfVolume(v, Len(cfg.files))

C7_Witness ==
    /\ packPc = "done"
    /\ compOrder = <<2, 1>>
    /\ Len(PayloadOf(1)) # Len(PayloadOf(2))
    /\ cfg.files[1].archive_file_index = cfg.files[2].archive_file_index

\* C8: after pack, volume v holds the payload of the files whose
\* archive_file_index is v, in declared order, and nothing else, volume 0 with
\* the header before it; the header gives the number of volumes and the names
\* of the volumes after the first.
C8_VolumeContents ==
    packPc = "done" =>
        /\ \A v \in 0..(Len(cfg.archives) - 1) :
              disk[cfg.archives[v + 1]] =
                  (IF v = 0 THEN headerOut ELSE <<>>)
                      \o PayloadOfVolume(v, Len(cfg.files))
        /\ LET r == cli_read_metadata(disk[cfg.archives[1]])
           IN  /\ r.ok
               /\ r.val.chunk_settings.num_archive_files = Len(cfg.archives)
               /\ r.val.volume_files = Tail(cfg.archives)

\* C2: after pack and unpack, every file of the descriptor is in the output
\* tree with the bytes of its source, for every compression method.
C2_ContentRoundTrip ==
    (packPc = "done" /\ upPc = "done") =>
        \A i \in 1..Len(cfg.files) :
            LET out == output_dir \o cfg.files[i].path
            IN  /\ out \in DOMAIN outTree
                /\ outTree[out] = FileNode(cfg.files[i].data)


\* C28: after a pack and an unpack of its archive, the descriptor unpack
\* writes gives every file the compression method and the archive_file_index
\* it was packed with, Copy with its mask 0 among them, so packing from that
\* descriptor gives chunks with the same flags.
C28_DescriptorRoundTrip ==
    (packPc = "done" /\ upPc = "done") =>
        /\ Len(upConfig.files) = Len(cfg.files)
        /\ \A i \in 1..Len(cfg.files) :
              /\ upConfig.files[i].compression = cfg.files[i].compression
              /\ upConfig.files[i].archive_file_index = cfg.files[i].archive_file_index
              /\ MethodFlags(upConfig.files[i].compression) = pack_chunks[i].flags

\* The chunks pack has written on volume v, in write order.
ChunksOnVolume(v) ==
    SelectSeq([i \in 1..Len(pack_chunks) |-> i], LAMBDA i : pack_chunks[i].file = v)

\* Where the payload of volume v begins: after the header on volume 0.
PayloadStart(v) == IF v = 0 THEN Len(headerOut) ELSE 0

\* The chunks of volume v lie one after the other from the start of the
\* payload to the end of the volume.
Contiguous(v) ==
    LET on == ChunksOnVolume(v)
        size == Len(disk[cfg.archives[v + 1]])
    IN  /\ on = <<>> => size = PayloadStart(v)
        /\ on # <<>> =>
              /\ pack_chunks[on[1]].offset = PayloadStart(v)
              /\ \A k \in 1..(Len(on) - 1) :
                    pack_chunks[on[k + 1]].offset =
                        pack_chunks[on[k]].offset + pack_chunks[on[k]].compressed_length
              /\ pack_chunks[on[Len(on)]].offset
                    + pack_chunks[on[Len(on)]].compressed_length = size

\* The chunk table of the archive as calculate_chunk_sizes gets it.
PackedRawChunks ==
    [raw_chunks |-> [i \in 1..Len(pack_chunks) |->
                        RawChunk(i - 1, pack_chunks[i].offset,
                                 pack_chunks[i].compressed_length,
                                 pack_chunks[i].decompressed_length,
                                 pack_chunks[i].flags, pack_chunks[i].file)],
     split_file_names |-> Tail(cfg.archives),
     main_file_len |-> Len(disk[cfg.archives[1]])]

PackedSplitLens ==
    [n \in {cfg.archives[v] : v \in 2..Len(cfg.archives)} |-> Len(disk[n])]

\* C29: in an archive pack has written, the chunks of each volume lie one
\* after the other in write order, the first at the end of the header on
\* volume 0 and at 0 on any other volume, the last ending at the end of the
\* volume; the size correction leaves every chunk the compressed_length the
\* writer recorded.
C29_PackedLayout ==
    packPc = "done" =>
        /\ \A v \in 0..(Len(cfg.archives) - 1) : Contiguous(v)
        /\ correct_chunk_sizes(pack_chunks,
                               FileSizes(cfg.archives[1], Tail(cfg.archives), disk))
              = pack_chunks
        /\ calculate_chunk_sizes(PackedRawChunks, PackedSplitLens).ok
        /\ \A i \in 1..Len(pack_chunks) :
              calculate_chunk_sizes(PackedRawChunks, PackedSplitLens).val[i].real_c_len
                  = pack_chunks[i].compressed_length

\* Some compression task has ended with an error.
SomeTaskFailed == \E i \in DOMAIN results : results[i] # Pending /\ ~results[i].ok

\* C25: when reading or compressing a file fails in the parallel phase, pack
\* returns the error of one of the failing tasks and writes no chunk payload
\* and no header; the write phase and the header pass start only after every
\* compression task has succeeded.
C25_NoWriteAfterFailure ==
    /\ SomeTaskFailed =>
          /\ packPc \in {"compress", "failed"}
          /\ processed_files = <<>>
          /\ pack_chunks = <<>>
          /\ chunk_map = <<>>
          /\ headerOut = <<>>
          /\ \A f \in DOMAIN disk : disk[f] = <<>>
          /\ packPc = "failed" =>
                \E i \in DOMAIN results :
                    results[i] # Pending /\ ~results[i].ok /\ packErr = results[i]
    /\ packPc \in {"write", "header", "done"} =>
          \A i \in DOMAIN results : results[i] # Pending /\ results[i].ok

C25_Witness ==
    /\ packPc = "failed"
    /\ Len(results) = 2
    /\ results[1].ok
    /\ results[1].val.compressed_data = <<7, 9>>
    /\ results[2] # Pending /\ ~results[2].ok
    /\ packErr = results[2]
    /\ disk[MainName] = <<>>

(***************************************************************************)
(* Crafted archives: a main volume built record by record from any strings *)
(***************************************************************************)
\* One chunk of two bytes per file, all on the main volume right after the
\* header; magic4 stands where the magic is.
CraftedPayload(k) == <<7, k>>

CraftedSize(names, dirs, flags) ==
    HeaderSize(names \o dirs, Len(names), <<MainName>>)
      + (IF \E k \in 1..Len(flags) : HasFlag(flags[k], CHUNK_DZ) THEN 10 ELSE 0)

CraftedArchive(magic4, names, dirs, dir_ids, flags) ==
    LET header == HeaderBytes(names \o dirs, Len(names), Len(dirs) + 1,
                     [k \in 1..Len(names) |->
                         [dir_id |-> dir_ids[k], chunk_ids |-> <<k - 1>>]],
                     <<MainName>>,
                     [k \in 1..Len(names) |->
                         [offset |-> CraftedSize(names, dirs, flags) + 2 * (k - 1),
                          compressed_length |-> 2,
                          decompressed_length |-> 2,
                          flags |-> flags[k],
                          file |-> 0]])
    IN  magic4 \o SubSeq(header, 5, Len(header))
          \o Concat([k \in 1..Len(names) |-> CraftedPayload(k)])

(***************************************************************************)
(* Driver of unpack_archive on crafted archives                            *)
(***************************************************************************)
EvilNames ==
    { <<ChE>>, <<ChP>>, DotDot, <<ChSlash, ChE>>, <<ChE, ChColon>>, <<>>,
      DotDot \o <<ChBackslash, ChE, ChSlash, ChP>> }

EvilDirs ==
    { <<ChP>>, DotDot, <<ChSlash, ChP>>, <<ChP, ChBackslash>>, <<ChP, ChSlash, ChE>>,
      <<ChP, ChBackslash>> \o DotDot, <<ChColon>>, <<>>,
      <<ChE, ChSlash, ChBackslash, ChP>> }

EvilDirIds == {0, 1, 2}

InitCliUnpack ==
    /\ CodecIdle
    /\ VerifyIdle
    /\ PathIdle
    /\ SizesIdle
    /\ CoreIdle
    /\ cfg = [files |-> <<>>, archives |-> <<>>]
    /\ PackRest("idle")
    /\ \E n1 \in EvilNames, n2 \in EvilNames, dir \in EvilDirs,
          i1 \in EvilDirIds, i2 \in EvilDirIds :
          disk = (MainName :> CraftedArchive(U32LE(MAGIC), <<n1, n2>>, <<dir>>,
                                             <<i1, i2>>, <<0, 0>>))
    /\ upInput = MainName
    /\ UnpackRest("start")

NextCliUnpack ==
    \/ UnpackLoad
    \/ \E i \in DOMAIN upTasks : ExtractTask(i)
    \/ UnpackFinish

SpecCliUnpack == InitCliUnpack /\ [][NextCliUnpack]_vars

(***************************************************************************)
(* Claims about unpack_archive on crafted archives                         *)
(***************************************************************************)
\* Where a host path leads: each component is taken apart at '/' and '\', a
\* ".." steps up, "." and the empty part stay; the depth below the output
\* root after each part.
RECURSIVE Flatten(_)
Flatten(path) == IF path = <<>> THEN <<>> ELSE SplitSeps(Head(path)) \o Flatten(Tail(path))

RECURSIVE StaysBelow(_, _)
StaysBelow(parts, depth) ==
    IF parts = <<>> THEN TRUE
    ELSE IF Head(parts) = DotDot
    THEN depth > 0 /\ StaysBelow(Tail(parts), depth - 1)
    ELSE IF Head(parts) = Dot \/ Head(parts) = <<>> THEN StaysBelow(Tail(parts), depth)
    ELSE ~ContainsColon(Head(parts)) /\ StaysBelow(Tail(parts), depth + 1)

UnderRoot(path) ==
    /\ Len(path) >= Len(output_dir)
    /\ SubSeq(path, 1, Len(output_dir)) = output_dir
    /\ StaysBelow(Flatten(SubSeq(path, Len(output_dir) + 1, Len(path))), 0)

EntryArchivePath(i) ==
    ArchivePath(upMeta.strings, upMeta.settings.num_user_files, upMeta.map[i].dir_id,
                upMeta.strings[i])

HasDotDotPart(s) == \E k \in 1..Len(SplitSeps(s)) : SplitSeps(s)[k] = DotDot

\* C3: whatever strings the archive carries, every file and directory unpack
\* creates lies under the output root; an entry whose archive path has a ".."
\* part fails with InvalidInput before anything is created for it, and unpack
\* does not succeed.
C3_UnpackStaysUnderRoot ==
    /\ \A p \in DOMAIN outTree : UnderRoot(p)
    /\ \A c \in upCreated : UnderRoot(c.path) /\ c.path \in DOMAIN outTree
    /\ upPc \in {"extract", "done", "failed"} /\ upMeta # <<>> =>
          \A i \in DOMAIN upTasks :
              HasDotDotPart(EntryArchivePath(i)) =>
                  /\ upPc # "done"
                  /\ upTasks[i] = Pending
                       \/ (~upTasks[i].ok /\ upTasks[i].err = "InvalidInput")
                  /\ \A c \in upCreated : c.entry # i

C3_Witness ==
    /\ upPc = "failed"
    /\ upMeta # <<>>
    /\ EntryArchivePath(1) = <<ChP, ChBackslash>> \o DotDot \o <<ChBackslash, ChE>>
    /\ ~upTasks[1].ok /\ upTasks[1].err = "InvalidInput"
    /\ EntryArchivePath(2) = <<ChSlash, ChE>>
    /\ \E c \in upCreated : c.entry = 2 /\ c.path = output_dir \o << <<ChE>> >>

\* The archive path of entry i as the format gives it: the name alone for the
\* root; else the directory string, a '\' unless the string ends in a
\* separator, and the name.
DirOfEntry(i) ==
    upMeta.strings[upMeta.settings.num_user_files + upMeta.map[i].dir_id]

JoinedArchivePath(i) ==
    IF upMeta.map[i].dir_id = 0 THEN upMeta.strings[i]
    ELSE DirOfEntry(i)
           \o (IF DirOfEntry(i) # <<>>
                  /\ DirOfEntry(i)[Len(DirOfEntry(i))] \in {ChSlash, ChBackslash}
               THEN <<>> ELSE <<ChBackslash>>)
           \o upMeta.strings[i]

\* The directory of entry i is the root or one of the strings of the table.
DirInTable(i) ==
    \/ upMeta.map[i].dir_id = 0
    \/ upMeta.settings.num_user_files + upMeta.map[i].dir_id <= Len(upMeta.strings)

\* The path UnpackPlan::extract hands to its sink for the same entry.
SinkPathOfEntry(i) ==
    RelPath([user_files |-> SubSeq(upMeta.strings, 1, upMeta.settings.num_user_files),
             directories |-> <<CURRENT_DIR_STR>>
                               \o SubSeq(upMeta.strings,
                                         upMeta.settings.num_user_files + 1,
                                         Len(upMeta.strings))],
            [id |-> i - 1, dir_idx |-> upMeta.map[i].dir_id])

MagicChoices == { U32LE(MAGIC), <<90, 82, 84, 68>>, <<222, 173, 190, 111>> }

CoreNames == { <<ChE>>, <<ChP>> }
CoreDirs == { <<ChP>>, <<ChP, ChBackslash, ChE>> }
CoreFlags == {0, CHUNK_ZLIB, CHUNK_MP3}

CoreArchives ==
    {CraftedArchive(m4, <<n1, n2>>, <<dir>>, <<i1, i2>>, <<f1, f2>>) :
        m4 \in MagicChoices, n1 \in CoreNames, n2 \in CoreNames, dir \in CoreDirs,
        i1 \in {0, 1}, i2 \in {0, 1}, f1 \in CoreFlags, f2 \in CoreFlags}

CoreMains ==
    {<<>>, <<68, 84>>} \cup MagicChoices \cup {m4 \o <<1, 0>> : m4 \in MagicChoices}
        \cup CoreArchives

InitCore ==
    /\ CodecIdle
    /\ VerifyIdle
    /\ PathIdle
    /\ SizesIdle
    /\ PackIdle
    /\ UnpackIdle
    /\ coreSource \in [main : CoreMains, splits : {NoFiles}]
    /\ coreKeepRaw \in BOOLEAN
    /\ CoreRest("load")

NextCore ==
    \/ CoreLoad
    \/ CoreBuild
    \/ \E i \in DOMAIN coreTasks : CoreExtract(i)
    \/ CoreFinish

SpecCore == InitCore /\ [][NextCore]_vars

(***************************************************************************)
(* Claims about do_unpack                                                  *)
(***************************************************************************)
\* The first four bytes as a little-endian number.
FirstWord(buf) == buf[1] + 256 * buf[2] + 65536 * buf[3] + 16777216 * buf[4]

\* C5: when the first four bytes, read little-endian, are a number m other
\* than MAGIC, load fails with InvalidMagic(m) having read those four bytes
\* only, and nothing is extracted; when they are MAGIC, load goes on to the
\* counts.
C5_InvalidMagic ==
    (corePc # "load" /\ Len(coreSource.main) >= 4) =>
        LET main == coreSource.main
            m == FirstWord(main)
        IN  /\ m # MAGIC =>
                  /\ coreMeta = [ok |-> FALSE, err |-> "InvalidMagic", msg |-> m,
                                 pos |-> 4]
                  /\ corePc = "failed"
                  /\ sinkDirs = {}
                  /\ sinkFiles = NoFiles
            /\ m = MAGIC =>
                  /\ coreMeta.ok \/ coreMeta.err # "InvalidMagic"
                  /\ Len(main) < 9 => ~coreMeta.ok /\ coreMeta.err = "Io"
                  /\ coreMeta.ok =>
                        /\ Len(coreMeta.val.user_files) = main[5] + 256 * main[6]
                        /\ Len(coreMeta.val.directories) = main[7] + 256 * main[8]

C5_Witness ==
    /\ corePc = "failed"
    /\ Len(coreSource.main) > 9
    /\ SubSeq(coreSource.main, 1, 4) = <<222, 173, 190, 111>>
    /\ ~coreMeta.ok
    /\ coreMeta.err = "InvalidMagic"
    /\ coreMeta.msg = 1874767326

\* The mask is not empty and has no bit but MP3, JPEG, COMBUF and RANDOMACCESS.
OnlyUndecodable(flags) ==
    /\ flags # 0
    /\ flags = BitOf(flags, CHUNK_MP3) + BitOf(flags, CHUNK_JPEG)
                 + BitOf(flags, CHUNK_COMBUF) + BitOf(flags, CHUNK_RANDOMACCESS)

\* C15: with keep_raw false, the extraction of a file with a chunk whose flags
\* have only bits among MP3, JPEG, COMBUF and RANDOMACCESS ends with an
\* unsupported-compression error, not with a successful decode.
C15_UnsupportedSurfaced ==
    (corePc \in {"extract", "done", "failed"} /\ coreMeta.ok /\ corePlan.ok
        /\ ~coreKeepRaw) =>
        \A i \in DOMAIN coreTasks :
            (/\ coreTasks[i] # Pending
             /\ \E k \in 1..Len(coreMeta.val.map_entries[i].chunk_ids) :
                    LET cid == coreMeta.val.map_entries[i].chunk_ids[k]
                    IN  /\ cid + 1 <= Len(corePlan.val)
                        /\ OnlyUndecodable(corePlan.val[cid + 1].flags)) =>
                /\ ~coreTasks[i].ok
                /\ coreTasks[i].err = "UnsupportedCompression"


(***************************************************************************)
(* Driver of the codecs: one operation applied to one mask and one input   *)
(***************************************************************************)
\* The masks whose set bits are all among the ten defined bits, and the same
\* masks with the undefined bit 0x8000 added.
HighBit == 32768

DefinedMasks == {m \in 0..2047 : ~HasFlag(m, 2)}

CodecFlags == DefinedMasks \cup {m + HighBit : m \in DefinedMasks}

CodecInputs ==
    { <<>>, <<7, 9>>, Encode("Zlib", <<5>>), Encode("Lzma", <<5>>),
      Encode("Bzip", <<5>>) }

CodecLens == {0, 3, ZeroChunkSize + 1}

InitCodec ==
    /\ PathIdle
    /\ SizesIdle
    /\ PackIdle
    /\ UnpackIdle
    /\ CoreIdle
    /\ VerifyIdle
    /\ cdPc = "ready"
    /\ cdFlags \in CodecFlags
    /\ cdInput \in CodecInputs
    /\ cdLen \in CodecLens
    /\ cdOut = NoResult

RegistryDecompress ==
    /\ cdPc = "ready"
    /\ cdOut' = [op |-> "registry", res |-> registry_decompress(cdInput, cdFlags, cdLen)]
    /\ cdPc' = "done"
    /\ UNCHANGED <<cdFlags, cdInput, cdLen, pathVars, szVars, packVars, upVars,
                   coreVars, verVars>>

CoreDecompress ==
    /\ cdPc = "ready"
    /\ cdOut' = [op |-> "core", res |-> decompress(cdInput, cdFlags)]
    /\ cdPc' = "done"
    /\ UNCHANGED <<cdFlags, cdInput, cdLen, pathVars, szVars, packVars, upVars,
                   coreVars, verVars>>

FlagNames ==
    /\ cdPc = "ready"
    /\ cdOut' = [op |-> "flags",
                 res |-> Ok([names |-> decode_flags(cdFlags),
                             mask |-> encode_flags(decode_flags(cdFlags))])]
    /\ cdPc' = "done"
    /\ UNCHANGED <<cdFlags, cdInput, cdLen, pathVars, szVars, packVars, upVars,
                   coreVars, verVars>>

\* compress, then decompress with the same flags and the length of the data.
RegistryRoundTrip ==
    /\ cdPc = "ready"
    /\ cdOut' = [op |-> "roundtrip",
                 res |-> registry_decompress(registry_compress(cdInput, cdFlags).val,
                                             cdFlags, Len(cdInput)),
                 packed |-> registry_compress(cdInput, cdFlags).val]
    /\ cdPc' = "done"
    /\ UNCHANGED <<cdFlags, cdInput, cdLen, pathVars, szVars, packVars, upVars,
                   coreVars, verVars>>

NextCodec == RegistryDecompress \/ CoreDecompress \/ FlagNames \/ RegistryRoundTrip

SpecCodec == InitCodec /\ [][NextCodec]_vars

(***************************************************************************)
(* Claims about the codecs                                                 *)
(***************************************************************************)
\* C12: encode_flags(decode_flags(x)) = x for every 16-bit mask x whose set bits
\* are all among the ten defined flag bits.
C12_FlagsRoundTrip ==
    (cdOut.op = "flags" /\ cdFlags \in DefinedMasks) => cdOut.res.val.mask = cdFlags

AllZero(bytes) == \A i \in 1..Len(bytes) : bytes[i] = 0

\* C13: decompress with a mask that has the ZERO bit set and expected length n
\* writes exactly n bytes, all zero, whatever the input and the other bits.
C13_ZeroDecode ==
    (cdOut.op \in {"registry", "core"} /\ HasFlag(cdFlags, CHUNK_ZERO)) =>
        /\ cdOut.res.ok
        /\ Len(cdOut.res.val) = cdLen
        /\ AllZero(cdOut.res.val)

\* The output of the codec of the first flag set, in the order ZERO, DZ_RANGE,
\* LZMA, ZLIB, BZIP, COPYCOMP.
ByPriority(flags, input, len) ==
    IF HasFlag(flags, CHUNK_ZERO) THEN Ok(Zeros(len))
    ELSE IF HasFlag(flags, CHUNK_DZ) THEN Ok(input)
    ELSE IF HasFlag(flags, CHUNK_LZMA) THEN Decode("Lzma", input)
    ELSE IF HasFlag(flags, CHUNK_ZLIB) THEN Decode("Zlib", input)
    ELSE IF HasFlag(flags, CHUNK_BZIP) THEN Decode("Bzip", input)
    ELSE Ok(input)

HasPriorityFlag(flags) ==
    \E bit \in {CHUNK_ZERO, CHUNK_DZ, CHUNK_LZMA, CHUNK_ZLIB, CHUNK_BZIP,
                 CHUNK_COPYCOMP} : HasFlag(flags, bit)

\* C14: for every mask, decompress runs the codec of the first flag, in the
\* order ZERO, DZ_RANGE, LZMA, ZLIB, BZIP, COPYCOMP, whose bit is set; a mask
\* with several of the bits is decoded by the one of highest priority.
C14_PriorityDispatch ==
    (cdOut.op \in {"registry", "core"} /\ HasPriorityFlag(cdFlags)) =>
        cdOut.res = ByPriority(cdFlags, cdInput, cdLen)

HasDecoderBit(flags) ==
    \E bit \in {CHUNK_ZERO, CHUNK_DZ, CHUNK_LZMA, CHUNK_ZLIB, CHUNK_BZIP} :
        HasFlag(flags, bit)

\* C20: decompress copies its input verbatim for flags = 0, for a mask with
\* the COPYCOMP bit and no bit of higher priority, and for a mask without any
\* registered bit (0x8000 among them); flags = 0 and COPYCOMP give the same
\* output for the same input.
C20_VerbatimCopy ==
    /\ (cdOut.op \in {"registry", "core"} /\ ~HasDecoderBit(cdFlags)) =>
            cdOut.res = Ok(cdInput)
    /\ registry_decompress(cdInput, 0, cdLen) =
            registry_decompress(cdInput, CHUNK_COPYCOMP, cdLen)
    /\ decompress(cdInput, 0) = decompress(cdInput, CHUNK_COPYCOMP)

C20_Witness ==
    /\ cdOut.op = "registry"
    /\ cdFlags = HighBit
    /\ cdInput = <<7, 9>>
    /\ cdOut.res = Ok(<<7, 9>>)

HasEncoderBit(flags) ==
    \E bit \in {CHUNK_LZMA, CHUNK_ZLIB, CHUNK_BZIP} : HasFlag(flags, bit)

\* C21: for every mask, compress and decompress select the same codec, so
\* decompress(compress(data, flags), flags) = data for every mask whose selected
\* codec is not ZERO; a mask that meets no codec is copied by both.
C21_CompressSymmetric ==
    /\ (cdOut.op = "roundtrip" /\ ~HasFlag(cdFlags, CHUNK_ZERO)) =>
            cdOut.res = Ok(cdInput)
    /\ (cdOut.op = "roundtrip" /\ ~HasDecoderBit(cdFlags)) =>
            cdOut.packed = cdInput



(***************************************************************************)
(* Crafted archives with chunk lists: the files e and p at the root, any   *)
(* chunk list for each, chunks of two bytes each on the main volume        *)
(***************************************************************************)
ChunkedTable(flags, base) ==
    [k \in 1..Len(flags) |->
        [offset |-> base + 2 * (k - 1),
         compressed_length |-> 2,
         decompressed_length |-> 2,
         flags |-> flags[k],
         file |-> 0]]

ChunkedHeader(lists, flags, base) ==
    HeaderBytes(<< <<ChE>>, <<ChP>> >>, 2, 1,
                [k \in 1..2 |-> [dir_id |-> 0, chunk_ids |-> lists[k]]],
                <<MainName>>, ChunkedTable(flags, base))

ChunkedArchive(lists, flags) ==
    ChunkedHeader(lists, flags, Len(ChunkedHeader(lists, flags, 0)))
      \o Concat([k \in 1..Len(flags) |-> CraftedPayload(k)])

\* Chunk ids 0 and 1 are in the table of two chunks, chunk id 2 is not.
ChunkLists == { <<0>>, <<0, 1>>, <<1, 0>>, <<0, 2>>, <<2>>, <<>>, <<1>> }

ChunkFlagChoices == {0, CHUNK_ZLIB, CHUNK_MP3}

ChunkedArchives ==
    {ChunkedArchive(<<l1, l2>>, <<f1, f2>>) :
        l1 \in ChunkLists, l2 \in { <<1>>, <<>> },
        f1 \in ChunkFlagChoices, f2 \in ChunkFlagChoices}

(***************************************************************************)
(* Driver of unpack_archive on the archives with chunk lists               *)
(***************************************************************************)
InitCliChunks ==
    /\ CodecIdle
    /\ VerifyIdle
    /\ PathIdle
    /\ SizesIdle
    /\ CoreIdle
    /\ cfg = [files |-> <<>>, archives |-> <<>>]
    /\ PackRest("idle")
    /\ \E a \in ChunkedArchives : disk = (MainName :> a)
    /\ upInput = MainName
    /\ UnpackRest("start")

SpecCliChunks == InitCliChunks /\ [][NextCliUnpack]_vars

\* What reading chunk id cid of the loaded archive gives.
ChunkOutcome(cid) ==
    read_chunk_data_with_volumes(upMeta.chunks[cid + 1], disk[upInput],
                                 upMeta.volume_files, disk)

\* The decoded bytes of the chunks of ids, from the k-th on, the chunks whose
\* decode signals unsupported-compression left out.
RECURSIVE DecodedFrom(_, _)
DecodedFrom(ids, k) ==
    IF k > Len(ids) THEN <<>>
    ELSE (IF ChunkOutcome(ids[k]).ok THEN ChunkOutcome(ids[k]).val ELSE <<>>)
           \o DecodedFrom(ids, k + 1)

\* C16: while unpack extracts one file, a chunk whose decode signals
\* unsupported-compression is skipped and the remaining chunks are still
\* written in order; any other error on a chunk ends the extraction of that
\* file with that error.
C16_ChunkErrors ==
    (upPc \in {"extract", "done", "failed"} /\ upMeta # <<>>) =>
        \A i \in DOMAIN upTasks :
            LET ids == upMeta.map[i].chunk_ids
                other == {k \in 1..Len(ids) :
                             /\ ~ChunkOutcome(ids[k]).ok
                             /\ ChunkOutcome(ids[k]).err # "UnsupportedCompression"}
            IN  (/\ upTasks[i] # Pending
                 /\ \A k \in 1..Len(ids) : ids[k] + 1 <= Len(upMeta.chunks)) =>
                    IF other # {}
                    THEN \E k \in other :
                            /\ \A j \in other : k <= j
                            /\ upTasks[i] = ChunkOutcome(ids[k])
                    ELSE /\ upTasks[i].ok
                         /\ outTree[output_dir \o <<upMeta.strings[i]>>] =
                                FileNode(DecodedFrom(ids, 1))


\* C30: the file tasks of the parallel extraction share no mutable state and
\* no two of them create or write the same output path, so, whatever the order
\* of the tasks, the final content of each output file is the decoded chunks
\* of its own entry, in order.
C30_TasksIndependent ==
    (upPc = "done" /\ upMeta # <<>>) =>
        /\ \A i, j \in DOMAIN upTasks :
              i # j => upTasks[i].val.path # upTasks[j].val.path
        /\ \A i \in DOMAIN upTasks :
              outTree[output_dir \o upTasks[i].val.path] =
                  FileNode(DecodedFrom(upMeta.map[i].chunk_ids, 1))

(***************************************************************************)
(* verify_archive                                                          *)
(***************************************************************************)
\* The read sequence of verify_archive: settings, strings, file map, chunk
\* settings, chunk table, volume list; the range settings are not read.
VerifyReadDone(settings, strings, map, cs, chunkTable, volume_files) ==
    IF ~volume_files.ok THEN volume_files
    ELSE Got([settings |-> settings,
              strings |-> strings,
              map |-> map,
              chunk_settings |-> cs,
              chunks |-> chunkTable,
              volume_files |-> volume_files.val], volume_files.pos)

VerifyReadVolumes(buf, settings, strings, map, cs, chunkTable) ==
    IF ~chunkTable.ok THEN chunkTable
    ELSE VerifyReadDone(settings, strings, map, cs, chunkTable.val,
                        IF cs.num_archive_files > 1
                        THEN ReadStrings(buf, chunkTable.pos, cs.num_archive_files - 1)
                        ELSE Got(<<>>, chunkTable.pos))

VerifyReadChunks(buf, settings, strings, map, naf, nc) ==
    IF ~nc.ok THEN nc
    ELSE VerifyReadVolumes(buf, settings, strings, map,
                           [num_archive_files |-> naf.val, num_chunks |-> nc.val],
                           ReadChunks(buf, nc.pos, nc.val))

VerifyReadChunkSettings(buf, settings, strings, map) ==
    IF ~map.ok THEN map
    ELSE VerifyReadChunks(buf, settings, strings, map.val,
                          ReadU16(buf, map.pos), ReadU16(buf, map.pos + 2))

VerifyReadMap(buf, settings, strings) ==
    IF ~strings.ok THEN strings
    ELSE VerifyReadChunkSettings(buf, settings, strings.val,
             ReadFileChunkMap(buf, strings.pos, settings.num_user_files))

VerifyReadStrings(buf, settings) ==
    IF ~settings.ok THEN settings
    ELSE VerifyReadMap(buf, settings.val,
                       ReadStrings(buf, settings.pos,
                                   StringsCount(settings.val.num_user_files,
                                                settings.val.num_directories)))

verify_read_metadata(buf) == VerifyReadStrings(buf, read_archive_settings(buf))

\* The path verify prints for a file-map entry: the directory string, a '/'
\* unless it ends with a separator, the file name.
VerifyPath(strings, num_user_files, dir_id, name) ==
    LET dir_index == num_user_files + dir_id - 1
        dir_name == IF dir_id > 0 /\ dir_index < Len(strings)
                    THEN strings[dir_index + 1] ELSE <<>>
        with_sep == IF dir_id > 0 /\ dir_index < Len(strings)
                       /\ ~(dir_name # <<>> /\ IsSep(dir_name[Len(dir_name)]))
                    THEN dir_name \o <<ChSlash>>
                    ELSE dir_name
    IN  with_sep \o name

\* The method verify prints for the flags of a file's first chunk.
VerifyMethod(flags) ==
    IF HasFlag(flags, CHUNK_ZLIB) THEN "Zlib"
    ELSE IF HasFlag(flags, CHUNK_BZIP) THEN "Bzip"
    ELSE IF HasFlag(flags, CHUNK_LZMA) THEN "LZMA"
    ELSE IF HasFlag(flags, CHUNK_COPYCOMP) THEN "Copy"
    ELSE IF HasFlag(flags, CHUNK_ZERO) THEN "Zero"
    ELSE IF HasFlag(flags, CHUNK_DZ) THEN "Dz"
    ELSE "Unknown"

\* The chunk loop of one file: FAIL when a chunk id is not in the table or a
\* chunk cannot be read and decoded.
RECURSIVE ChunkStatus(_, _, _, _, _, _)
ChunkStatus(ids, k, chunkTable, main, volume_files, files) ==
    IF k > Len(ids) THEN "OK"
    ELSE IF ids[k] + 1 > Len(chunkTable)
            \/ ~read_chunk_data_with_volumes(chunkTable[ids[k] + 1], main,
                                              volume_files, files).ok
    THEN "FAIL"
    ELSE ChunkStatus(ids, k + 1, chunkTable, main, volume_files, files)

\* The loop over the chunk ids that adds up the sizes; it indexes the chunk
\* table without a check.
RECURSIVE SumSizes(_, _, _)
SumSizes(ids, k, chunkTable) ==
    IF k > Len(ids) THEN Ok([size |-> 0, packed |-> 0])
    ELSE IF ids[k] + 1 > Len(chunkTable) THEN Err("Panic", "index out of bounds")
    ELSE LET rest == SumSizes(ids, k + 1, chunkTable)
         IN  IF ~rest.ok THEN rest
             ELSE Ok([size |-> chunkTable[ids[k] + 1].decompressed_length
                                 + rest.val.size,
                      packed |-> chunkTable[ids[k] + 1].compressed_length
                                   + rest.val.packed])

\* Lines 8-58: the header is read and the chunk sizes corrected.
VerifyLoaded(meta) ==
    IF ~meta.ok
    THEN /\ verPc' = "failed"
         /\ verErr' = [ok |-> FALSE, err |-> meta.err, msg |-> meta.msg]
         /\ UNCHANGED <<verMeta, verTasks>>
    ELSE /\ verMeta' = [meta.val EXCEPT !.chunks =
                correct_chunk_sizes(meta.val.chunks,
                    FileSizes(verInput, meta.val.volume_files, disk))]
         /\ verTasks' = [i \in 1..Len(meta.val.map) |-> Pending]
         /\ verPc' = "verify"
         /\ UNCHANGED verErr

VerifyLoad ==
    /\ verPc = "start"
    /\ IF verInput \notin DOMAIN disk
       THEN /\ verPc' = "failed"
            /\ verErr' = Err("Io", "cannot open archive")
            /\ UNCHANGED <<verMeta, verTasks>>
       ELSE \E overflow_checks \in BOOLEAN :
              IF overflow_checks /\ CountOverflows(read_archive_settings(disk[verInput]))
              THEN /\ verPc' = "panicked"
                   /\ verErr' = Err("Panic", "arithmetic overflow")
                   /\ UNCHANGED <<verMeta, verTasks>>
              ELSE VerifyLoaded(verify_read_metadata(disk[verInput]))
    /\ UNCHANGED <<verInput, verLines>>
    /\ UNCHANGED <<pathVars, szVars, packVars, upVars, coreVars, codecVars>>

\* The line of file-map entry i, once its name, its first chunk and its sizes
\* are there.
VerifyLine(i, entry, sizes) ==
    IF ~sizes.ok THEN sizes
    ELSE Ok([idx |-> i - 1,
             status |-> ChunkStatus(entry.chunk_ids, 1, verMeta.chunks,
                                    disk[verInput], verMeta.volume_files, disk),
             size |-> sizes.val.size,
             packed |-> sizes.val.packed,
             method |-> IF entry.chunk_ids = <<>> THEN "Unknown"
                        ELSE VerifyMethod(verMeta.chunks[entry.chunk_ids[1] + 1].flags),
             path |-> VerifyPath(verMeta.strings, verMeta.settings.num_user_files,
                                 entry.dir_id, verMeta.strings[i])])

\* One task of the parallel verification: file-map entry i.
VerifyTask(i) ==
    /\ verPc = "verify"
    /\ verTasks[i] = Pending
    /\ verTasks' = [verTasks EXCEPT ![i] =
          IF i > Len(verMeta.strings)
             \/ (verMeta.map[i].chunk_ids # <<>>
                   /\ verMeta.map[i].chunk_ids[1] + 1 > Len(verMeta.chunks))
          THEN Err("Panic", "index out of bounds")
          ELSE VerifyLine(i, verMeta.map[i],
                          SumSizes(verMeta.map[i].chunk_ids, 1, verMeta.chunks))]
    /\ UNCHANGED <<verPc, verInput, verErr, verMeta, verLines>>
    /\ UNCHANGED <<pathVars, szVars, packVars, upVars, coreVars, codecVars>>

\* The end of the parallel phase: a panic of some task is the panic of verify
\* and nothing is printed; otherwise the lines are printed in file order.
VerifyFinish ==
    /\ verPc = "verify"
    /\ IF \E i \in DOMAIN verTasks : verTasks[i] # Pending /\ ~verTasks[i].ok
       THEN /\ verPc' = "panicked"
            /\ UNCHANGED verLines
       ELSE /\ \A i \in DOMAIN verTasks : verTasks[i] # Pending
            /\ verLines' = [i \in 1..Len(verTasks) |-> verTasks[i].val]
            /\ verPc' = "done"
    /\ UNCHANGED <<verInput, verErr, verMeta, verTasks>>
    /\ UNCHANGED <<pathVars, szVars, packVars, upVars, coreVars, codecVars>>

(***************************************************************************)
(* Driver of verify_archive on the archives with chunk lists               *)
(***************************************************************************)
InitVerify ==
    /\ CodecIdle
    /\ PathIdle
    /\ SizesIdle
    /\ UnpackIdle
    /\ CoreIdle
    /\ cfg = [files |-> <<>>, archives |-> <<>>]
    /\ PackRest("idle")
    /\ \E a \in ChunkedArchives : disk = (MainName :> a)
    /\ verInput = MainName
    /\ VerifyRest("start")

NextVerify ==
    \/ VerifyLoad
    \/ \E i \in DOMAIN verTasks : VerifyTask(i)
    \/ VerifyFinish

SpecVerify == InitVerify /\ [][NextVerify]_vars

\* File-map entry i has a chunk id that is not in the chunk table, or a chunk
\* that cannot be read and decoded.
HasBadChunk(i) ==
    \E k \in 1..Len(verMeta.map[i].chunk_ids) :
        LET cid == verMeta.map[i].chunk_ids[k]
        IN  \/ cid + 1 > Len(verMeta.chunks)
            \/ ~read_chunk_data_with_volumes(verMeta.chunks[cid + 1], disk[verInput],
                                              verMeta.volume_files, disk).ok

\* C17: verify prints a status, OK or FAIL, for every file of the archive and
\* does not abort when a file has a chunk that fails to decode or a chunk id
\* that is not in the chunk table; such a file is reported FAIL and the other
\* files are still reported.
C17_VerifyReportsAll ==
    (verPc \in {"done", "failed", "panicked"} /\ verMeta # <<>>) =>
        /\ verPc = "done"
        /\ Len(verLines) = Len(verMeta.map)
        /\ \A i \in 1..Len(verLines) :
              /\ verLines[i].idx = i - 1
              /\ verLines[i].status = IF HasBadChunk(i) THEN "FAIL" ELSE "OK"


(***************************************************************************)
(* Driver of do_unpack on archives whose chunks hold streams               *)
(***************************************************************************)
\* A payload that is no stream, a zlib stream, and a zlib stream that breaks
\* off after the first of its two bytes of data.
StreamPayloads == { <<7, 9>>, Encode("Zlib", <<5>>), <<120, 2, 5>> }

StreamTable(flags, payloads, base) ==
    [k \in 1..2 |->
        [offset |-> base + (IF k = 1 THEN 0 ELSE Len(payloads[1])),
         compressed_length |-> Len(payloads[k]),
         decompressed_length |-> 2,
         flags |-> flags[k],
         file |-> 0]]

StreamHeader(lists, flags, payloads, base) ==
    HeaderBytes(<< <<ChE>>, <<ChP>> >>, 2, 1,
                [k \in 1..2 |-> [dir_id |-> 0, chunk_ids |-> lists[k]]],
                <<MainName>>, StreamTable(flags, payloads, base))

StreamArchive(lists, flags, payloads) ==
    StreamHeader(lists, flags, payloads, Len(StreamHeader(lists, flags, payloads, 0)))
      \o payloads[1] \o payloads[2]

StreamArchives ==
    {StreamArchive(<<l1, <<1>> >>, <<f1, f2>>, <<p1, p2>>) :
        l1 \in { <<0>>, <<0, 1>>, <<1, 0>> },
        f1 \in {0, CHUNK_ZLIB}, f2 \in {0, CHUNK_ZLIB},
        p1 \in StreamPayloads, p2 \in StreamPayloads}

InitCoreStreams ==
    /\ CodecIdle
    /\ VerifyIdle
    /\ PathIdle
    /\ SizesIdle
    /\ PackIdle
    /\ UnpackIdle
    /\ coreSource \in [main : StreamArchives, splits : {NoFiles}]
    /\ coreKeepRaw \in BOOLEAN
    /\ CoreRest("load")

SpecCoreStreams == InitCoreStreams /\ [][NextCore]_vars

\* The raw bytes of every chunk of the list whose decode fails, the decoded
\* bytes of every other chunk, in the order of the list.
RECURSIVE RawOrDecoded(_, _)
RawOrDecoded(ids, k) ==
    IF k > Len(ids) THEN <<>>
    ELSE LET chunk == corePlan.val[ids[k] + 1]
             raw == Take(coreSource.main, chunk.offset, chunk.real_c_len)
         IN  (IF decompress(raw, chunk.flags).ok THEN decompress(raw, chunk.flags).val
              ELSE raw)
               \o RawOrDecoded(ids, k + 1)

\* C22: with keep_raw, a chunk whose decode fails adds to the output file its
\* raw bytes, real_c_len bytes from its offset in its volume, and nothing else,
\* and the extraction goes on with the next chunk of the file.
C22_KeepRawWritesRaw ==
    (corePc \in {"extract", "done", "failed"} /\ coreMeta.ok /\ corePlan.ok
        /\ coreKeepRaw) =>
        \A i \in DOMAIN coreTasks :
            coreTasks[i] # Pending =>
                /\ coreTasks[i].ok
                /\ sinkFiles[RelPath(coreMeta.val, coreMeta.val.map_entries[i])] =
                      RawOrDecoded(coreMeta.val.map_entries[i].chunk_ids, 1)


(***************************************************************************)
(* do_pack: the string table and the dir ids of the header                 *)
(***************************************************************************)
IsWhitespace(c) == c \in {9, 10, 11, 12, 13, 32}

RECURSIVE TrimStart(_)
TrimStart(s) ==
    IF s # <<>> /\ IsWhitespace(Head(s)) THEN TrimStart(Tail(s)) ELSE s

RECURSIVE TrimEnd(_)
TrimEnd(s) ==
    IF s # <<>> /\ IsWhitespace(s[Len(s)]) THEN TrimEnd(SubSeq(s, 1, Len(s) - 1))
    ELSE s

\* str::trim
Trim(s) == TrimEnd(TrimStart(s))

\* The order of String: byte by byte, a proper prefix first.
StrLess(a, b) ==
    \E k \in 1..(Len(b)) :
        /\ k <= Len(a) + 1
        /\ \A j \in 1..(k - 1) : a[j] = b[j]
        /\ (k = Len(a) + 1 \/ a[k] < b[k])

\* The elements of a set of strings in insertion order of the file list,
\* unsorted: the directories as they are first named.
RECURSIVE UnsortedDirs(_, _)
UnsortedDirs(dirList, k) ==
    IF k > Len(dirList) THEN <<>>
    ELSE IF \E j \in 1..(k - 1) : dirList[j] = dirList[k]
    THEN UnsortedDirs(dirList, k + 1)
    ELSE <<dirList[k]>> \o UnsortedDirs(dirList, k + 1)

\* sorted_dirs.sort()
RECURSIVE SortStrings(_)
SortStrings(set) ==
    IF set = {} THEN <<>>
    ELSE LET least == CHOOSE a \in set : \A b \in set \ {a} : StrLess(a, b)
         IN  <<least>> \o SortStrings(set \ {least})

\* The entry of unique_dirs for a directory of the descriptor.
UniqueDirEntry(directory) ==
    IF Trim(directory) = <<>> THEN <<>>
    ELSE Replace(Trim(directory), ChBackslash, ChSlash)

\* sorted_dirs: the directories of the files and the root "", sorted; the root
\* is first.
SortedDirs(files) ==
    SortStrings({UniqueDirEntry(files[i].directory) : i \in 1..Len(files)}
                  \cup {<<>>})

\* dir_map.get(&d_key).unwrap_or(&0): the 0-based place in sorted_dirs.
LegacyDirId(sorted_dirs, d_key) ==
    IF \E j \in 1..Len(sorted_dirs) : sorted_dirs[j] = d_key
    THEN (CHOOSE j \in 1..Len(sorted_dirs) : sorted_dirs[j] = d_key) - 1
    ELSE 0

\* Step 2 of do_pack: the counts, the names, the directories after the root
\* and the dir id of every file, as they are written to the header.
LegacyBuildHeader ==
    /\ packPc = "legacy"
    /\ all_strings' =
          [i \in 1..Len(cfg.files) |-> cfg.files[i].filename]
            \o [k \in 1..(Len(SortedDirs(cfg.files)) - 1) |->
                  Replace(SortedDirs(cfg.files)[k + 1], ChSlash, ChBackslash)]
    /\ file_dir_ids' =
          [i \in 1..Len(cfg.files) |->
              LegacyDirId(SortedDirs(cfg.files),
                          Replace(cfg.files[i].directory, ChBackslash, ChSlash))]
    /\ num_directories' = Len(SortedDirs(cfg.files))
    /\ packPc' = "legacy_header"
    /\ UNCHANGED <<cfg, packErr, header_size, writers, disk, results, compOrder,
                   processed_files, pack_chunks, chunk_map, headerOut>>
    /\ UNCHANGED <<pathVars, szVars, upVars, coreVars, codecVars, verVars>>

(***************************************************************************)
(* Driver of do_pack's header: descriptors with directories                *)
(***************************************************************************)
LegacyDirs ==
    { <<>>, <<ChP>>, <<ChE>>, <<ChP, ChBackslash, ChE>>, <<ChP, ChSlash, ChE>>, Dot }

LegacyFiles ==
    StringsUpTo([directory : LegacyDirs, filename : { <<ChE>>, <<ChP>> }], MaxFiles)

InitLegacyPack ==
    /\ CodecIdle
    /\ VerifyIdle
    /\ PathIdle
    /\ SizesIdle
    /\ CoreIdle
    /\ UnpackIdle
    /\ cfg \in [files : LegacyFiles, archives : {<<MainName>>}]
    /\ disk = NoFiles
    /\ PackRest("legacy")

NextLegacyPack == LegacyBuildHeader

SpecLegacyPack == InitLegacyPack /\ [][NextLegacyPack]_vars

(***************************************************************************)
(* Claims about the string table                                           *)
(***************************************************************************)
\* The directories other than the root, "" and ".", each once, in the order in
\* which the files first name them, in archive format.
FirstSeenDirs(dirList) ==
    UnsortedDirs(SelectSeq([i \in 1..Len(dirList) |->
                               Replace(dirList[i], ChSlash, ChBackslash)],
                           LAMBDA d : d # <<>> /\ d # Dot), 1)

\* The 1-based place of a directory among those, 0 for the root.
FirstSeenId(dirList, d) ==
    LET dirs == FirstSeenDirs(dirList)
        da == Replace(d, ChSlash, ChBackslash)
    IN  IF da = <<>> \/ da = Dot THEN 0
        ELSE CHOOSE j \in 1..Len(dirs) : dirs[j] = da

\* C23: the string table is the file names in declared order, then the
\* distinct directories other than the root in first-seen order, in archive
\* format; the dir_id of a file is the 1-based place of its directory among
\* them, 0 when the directory is "" or "."; num_directories is their number
\* plus one.
C23_StringTable ==
    packPc = "legacy_header" =>
        LET dirList == [i \in 1..Len(cfg.files) |-> cfg.files[i].directory]
        IN  /\ all_strings = [i \in 1..Len(cfg.files) |-> cfg.files[i].filename]
                               \o FirstSeenDirs(dirList)
            /\ file_dir_ids = [i \in 1..Len(cfg.files) |->
                                  FirstSeenId(dirList, dirList[i])]
            /\ num_directories = Len(FirstSeenDirs(dirList)) + 1


(***************************************************************************)
(* Driver of unpack_archive on headers with any counts                     *)
(***************************************************************************)
\* The counts a header declares; the strings it carries are any of up to
\* MaxStrings names.
MaxStrings == 3

CountFiles == {2, 3}

CountDirs == {1, 2, 65535}

CountHeader(strings, num_user_files, num_dirs, dir_ids, base) ==
    HeaderBytes(strings, num_user_files, num_dirs,
                [k \in 1..num_user_files |->
                    [dir_id |-> dir_ids[k], chunk_ids |-> <<k - 1>>]],
                <<MainName>>, ChunkedTable([k \in 1..num_user_files |-> 0], base))

CountArchive(strings, num_user_files, num_dirs, dir_ids) ==
    CountHeader(strings, num_user_files, num_dirs, dir_ids,
                Len(CountHeader(strings, num_user_files, num_dirs, dir_ids, 0)))
      \o Concat([k \in 1..num_user_files |-> CraftedPayload(k)])

CountArchives ==
    {CountArchive(strings, nf, nd, <<i1, i2, 0>>) :
        strings \in StringsUpTo({<<ChE>>, <<ChP>>}, MaxStrings),
        nf \in CountFiles, nd \in CountDirs, i1 \in {0, 1}, i2 \in {0, 1}}

InitCliCounts ==
    /\ CodecIdle
    /\ VerifyIdle
    /\ PathIdle
    /\ SizesIdle
    /\ CoreIdle
    /\ cfg = [files |-> <<>>, archives |-> <<>>]
    /\ PackRest("idle")
    /\ \E a \in CountArchives : disk = (MainName :> a)
    /\ upInput = MainName
    /\ UnpackRest("start")

SpecCliCounts == InitCliCounts /\ [][NextCliUnpack]_vars

\* C26: for all 16-bit counts num_user_files and num_directories >= 1 the
\* reader reads exactly num_user_files + num_directories - 1 strings, the count
\* being computed without 16-bit wrap-around, and no string for the root.
C26_StringCount ==
    (upPc # "start"
        /\ read_archive_settings(disk[upInput]).ok
        /\ read_archive_settings(disk[upInput]).val.num_directories >= 1) =>
        /\ upErr # Err("Panic", "arithmetic overflow")
        /\ upMeta # <<>> =>
              Len(upMeta.strings) =
                  read_archive_settings(disk[upInput]).val.num_user_files
                    + read_archive_settings(disk[upInput]).val.num_directories - 1


(***************************************************************************)
(* Driver of the flag names: one list of names, encoded and decoded again  *)
(***************************************************************************)
\* The ten names, in the reverse of the order in which decode_flags tests them.
KnownNames ==
    <<"RANDOM_ACCESS", "LZMA", "COPY", "ZERO", "JPEG", "MP3", "BZIP", "ZLIB",
      "DZ_RANGE", "COMBUF">>

\* Every set of names as a list, and the list of test_flags_roundtrip.
NameLists ==
    {SelectSeq(KnownNames, LAMBDA n : n \in S) :
        S \in SUBSET {KnownNames[i] : i \in 1..Len(KnownNames)}}
      \cup { <<"LZMA", "ZLIB", "MP3">>, <<"COMBUF", "RANDOM_ACCESS">> }

InitFlagNames ==
    /\ PathIdle
    /\ SizesIdle
    /\ PackIdle
    /\ UnpackIdle
    /\ CoreIdle
    /\ VerifyIdle
    /\ cdPc = "ready"
    /\ cdFlags = 0
    /\ cdInput \in NameLists
    /\ cdLen = 0
    /\ cdOut = NoResult

\* test_flags_roundtrip: the list is encoded and the mask decoded.
EncodeNames ==
    /\ cdPc = "ready"
    /\ cdFlags' = encode_flags(cdInput)
    /\ cdOut' = [op |-> "names", res |-> Ok(decode_flags(encode_flags(cdInput)))]
    /\ cdPc' = "done"
    /\ UNCHANGED <<cdInput, cdLen, pathVars, szVars, packVars, upVars, coreVars,
                   verVars>>

NextFlagNames == EncodeNames

SpecFlagNames == InitFlagNames /\ [][NextFlagNames]_vars

\* C27: for every set L of distinct names among the ten,
\* decode_flags(encode_flags(L)) has exactly the names of L, each once;
\* encode_flags of the empty list is 0 and decode_flags(0) is the one name COPY.
C27_NamesRoundTrip ==
    cdOut.op = "names" =>
        /\ cdInput # <<>> =>
              /\ {cdOut.res.val[i] : i \in 1..Len(cdOut.res.val)} =
                    {cdInput[i] : i \in 1..Len(cdInput)}
              /\ Len(cdOut.res.val) = Len(cdInput)
        /\ cdInput = <<>> =>
              /\ cdFlags = 0
              /\ cdOut.res.val = <<"COPY">>

C27_Witness ==
    /\ cdOut.op = "names"
    /\ cdInput = <<"LZMA", "ZLIB", "MP3">>
    /\ cdFlags = CHUNK_LZMA + CHUNK_ZLIB + CHUNK_MP3
    /\ cdOut.res.val = <<"ZLIB", "MP3", "LZMA">>

====
